---------------------------- MODULE Spec2Model ----------------------------
(***************************************************************************)
(* A model of the evidence-fusion and scoring core of sovereign_audit:     *)
(* resource extraction, fingerprint matching against known_services.json,  *)
(* the merge of oracle vendors with detected services, and the scoring     *)
(* functions.  Strings are TLA+ strings; TLC evaluates Len, SubSeq and \o   *)
(* on them, so substring tests, trimming and case folding are computed     *)
(* character by character as the Python code computes them.                *)
(***************************************************************************)
EXTENDS Integers, Sequences, FiniteSets, TLC

VARIABLES
    \* ---- one analysis: pages -> resources -> services -> merged vendors
    page,              \* the markup of the page, as its sequence of tags
    baseUrl,           \* the page's base URL
    oracleVendors,     \* the vendor list returned by the extraction oracle
    resources,         \* analyze_embedded_resources: resources_by_type
    uniqueDomains,     \* analyze_embedded_resources: unique_domains
    detectedServices,  \* the fingerprint matcher's DetectedService list
    vendors,           \* the canonical vendor sequence being built
    nextService,       \* index of the next DetectedService to merge
    mpc,               \* position of the analysis
    \* ---- one scoring run (calculate_score)
    facts,             \* the company / infrastructure / data-flow facts
    score,             \* the running score
    deductions,        \* the reason strings of the deductions, in order
    positive_factors,  \* the reason strings of the bonuses, in order
    risk_level,        \* the classification of the final score
    nextVendor,        \* index of the next vendor to score
    spc,               \* position of the scoring run
    \* ---- calls of calculate_weighted_score(vendors)
    wVendors,          \* the vendor list of the first call
    wReordered,        \* the same vendors in another order, for the second call
    wCall,             \* which call is running
    wIndex,            \* the loop's position in the list
    wScore,            \* the local variable score
    wResults,          \* the values returned so far
    wpc,               \* position of the caller
    \* ---- calls of normalizeUrl(input) (utils/urlNormalizer.js)
    nInput,            \* the text passed to the first call
    nOutput,           \* what the first call returned
    nAgain,            \* what normalizeUrl returned for nOutput
    npc,               \* position of the caller
    \* ---- the App component and its handleAnalyze (frontend/src/App.jsx)
    loading,           \* useState(false)
    error,             \* useState(null): <<>> is null, <<m>> the message m
    result,            \* useState(null): <<>> is null, <<d>> the data d
    currentUrl,        \* useState(null): <<>> is null, <<u>> the URL u
    currentStep,       \* useState(0)
    hpc,               \* the await at which handleAnalyze is suspended
    timer,             \* the 60-second timer of the run
    response,          \* the Response that fetch resolved with
    bodyState,         \* the transfer of the response's body
    thrown,            \* the err of the catch block: <<>> while nothing was caught
    \* ---- the Extraction Oracle Adapter (backend/main.py)
    rawResponse,       \* what the oracle answered
    extraction,        \* the adapter's normalized result
    diagnostics,       \* the diagnostics the adapter recorded
    opc,               \* position of the oracle call
    \* ---- one request analyze(url) (backend/main.py)
    fetchStatus,       \* how the page fetch ended
    textLength,        \* the number of characters of text extracted
    inFlight,          \* the number of page fetches still in flight
    aborted,           \* the caller has aborted the request
    outcome,           \* what the request returned to the caller
    apc,               \* position of the request
    \* ---- the Loading component (frontend/src/components/Loading.jsx)
    mounted,           \* Loading is rendered
    lCurrentStep,      \* the prop currentStep
    thinkingSteps,     \* useState([]): per step <<>> (undefined) or <<list>>
    currentThinking,   \* useState('')
    intervals          \* the live intervals, each with the currentStep and the
                       \* thinkingIndex of its closure

analysisVars == <<page, baseUrl, oracleVendors, resources, uniqueDomains,
                  detectedServices, nextService, mpc>>

scoreVars == <<facts, score, deductions, positive_factors, risk_level, nextVendor, spc>>

weightedVars == <<wVendors, wReordered, wCall, wIndex, wScore, wResults, wpc>>

normalizerVars == <<nInput, nOutput, nAgain, npc>>

\* the state of the parts modelled further down
appVars == <<loading, error, result, currentUrl, currentStep, hpc, timer, response, bodyState, thrown>>

adapterVars == <<rawResponse, extraction, diagnostics, opc>>

requestVars == <<fetchStatus, textLength, inFlight, aborted, outcome, apc>>

loadingVars == <<mounted, lCurrentStep, thinkingSteps, currentThinking, intervals>>

laterVars == <<normalizerVars, appVars, adapterVars, requestVars, loadingVars>>

vars == <<analysisVars, vendors, scoreVars, weightedVars, laterVars>>

-----------------------------------------------------------------------------
(* Bounds of the model *)

MaxTags == 2
MaxOracle == 2
MaxDetected == 2
MaxVendors == 2
MaxLocations == 1
MaxWeighted == 3

-----------------------------------------------------------------------------
(* Strings, as Python's str methods compute them *)

UpperLetters == "ABCDEFGHIJKLMNOPQRSTUVWXYZ"
LowerLetters == "abcdefghijklmnopqrstuvwxyz"
Digits == "0123456789"

CharAt(s, i) == SubSeq(s, i, i)

\* c occurs in the string of characters cs
CharIn(c, cs) == \E i \in 1..Len(cs) : CharAt(cs, i) = c

IndexIn(c, cs) == CHOOSE i \in 1..Len(cs) : CharAt(cs, i) = c

LowerChar(c) == IF CharIn(c, UpperLetters) THEN CharAt(LowerLetters, IndexIn(c, UpperLetters)) ELSE c

UpperChar(c) == IF CharIn(c, LowerLetters) THEN CharAt(UpperLetters, IndexIn(c, LowerLetters)) ELSE c

\* str.lower(), character by character (the string is halved at each step)
RECURSIVE lower(_)
lower(s) ==
    IF Len(s) <= 1 THEN LowerChar(s)
    ELSE lower(SubSeq(s, 1, Len(s) \div 2)) \o lower(SubSeq(s, Len(s) \div 2 + 1, Len(s)))

\* str.upper()
RECURSIVE upper(_)
upper(s) ==
    IF Len(s) <= 1 THEN UpperChar(s)
    ELSE upper(SubSeq(s, 1, Len(s) \div 2)) \o upper(SubSeq(s, Len(s) \div 2 + 1, Len(s)))

Whitespace == " \t\n\r"

RECURSIVE lstrip(_)
lstrip(s) == IF s # "" /\ CharIn(CharAt(s, 1), Whitespace) THEN lstrip(SubSeq(s, 2, Len(s))) ELSE s

RECURSIVE rstrip(_)
rstrip(s) == IF s # "" /\ CharIn(CharAt(s, Len(s)), Whitespace) THEN rstrip(SubSeq(s, 1, Len(s) - 1)) ELSE s

strip(s) == rstrip(lstrip(s))

\* Python's  a in b  on strings
IsSubstring(a, b) == \E i \in 1..(Len(b) - Len(a) + 1) : SubSeq(b, i, i + Len(a) - 1) = a

startswith(s, p) == Len(p) <= Len(s) /\ SubSeq(s, 1, Len(p)) = p

-----------------------------------------------------------------------------
(* The service registry: backend/known_services.json, flattened in the      *)
(* iteration order of  for category, services in KNOWN_SERVICES.items() /  *)
(* for domain, info in services.items().                                   *)

KNOWN_SERVICES ==
   << [domain |-> "google-analytics.com", name |-> "Google Analytics", jurisdiction |-> "United States",
        category |-> "Analytics", risk_level |-> "High", category_group |-> "analytics"],
      [domain |-> "mixpanel.com", name |-> "Mixpanel", jurisdiction |-> "United States",
        category |-> "Analytics", risk_level |-> "High", category_group |-> "analytics"],
      [domain |-> "plausible.io", name |-> "Plausible Analytics", jurisdiction |-> "Estonia (EU)",
        category |-> "Analytics", risk_level |-> "Low", category_group |-> "analytics"],
      [domain |-> "fonts.googleapis.com", name |-> "Google Fonts", jurisdiction |-> "United States",
        category |-> "CDN/Fonts", risk_level |-> "Medium", category_group |-> "fonts"],
      [domain |-> "fonts.gstatic.com", name |-> "Google Fonts CDN", jurisdiction |-> "United States",
        category |-> "CDN/Fonts", risk_level |-> "Medium", category_group |-> "fonts"],
      [domain |-> "intercom.io", name |-> "Intercom", jurisdiction |-> "United States",
        category |-> "Customer Support", risk_level |-> "Critical", category_group |-> "customer_support"],
      [domain |-> "widget.intercom.io", name |-> "Intercom Widget", jurisdiction |-> "United States",
        category |-> "Customer Support", risk_level |-> "Critical", category_group |-> "customer_support"],
      [domain |-> "crisp.chat", name |-> "Crisp", jurisdiction |-> "France (EU)",
        category |-> "Customer Support", risk_level |-> "Low", category_group |-> "customer_support"],
      [domain |-> "stripe.com", name |-> "Stripe", jurisdiction |-> "United States",
        category |-> "Payment Processing", risk_level |-> "Critical", category_group |-> "payment"],
      [domain |-> "js.stripe.com", name |-> "Stripe.js", jurisdiction |-> "United States",
        category |-> "Payment Processing", risk_level |-> "Critical", category_group |-> "payment"],
      [domain |-> "sendgrid.com", name |-> "SendGrid (Twilio)", jurisdiction |-> "United States",
        category |-> "Email Service", risk_level |-> "High", category_group |-> "email"],
      [domain |-> "api.mailgun.net", name |-> "Mailgun", jurisdiction |-> "United States",
        category |-> "Email Service", risk_level |-> "High", category_group |-> "email"],
      [domain |-> "sentry.io", name |-> "Sentry", jurisdiction |-> "United States",
        category |-> "Error Tracking", risk_level |-> "High", category_group |-> "monitoring"],
      [domain |-> "datadoghq.com", name |-> "Datadog", jurisdiction |-> "United States",
        category |-> "Monitoring", risk_level |-> "High", category_group |-> "monitoring"],
      [domain |-> "cloudflare.com", name |-> "Cloudflare", jurisdiction |-> "United States",
        category |-> "CDN/DDoS Protection", risk_level |-> "Medium", category_group |-> "cdn"],
      [domain |-> "cdnjs.cloudflare.com", name |-> "Cloudflare CDN (cdnjs)", jurisdiction |-> "United States",
        category |-> "CDN", risk_level |-> "Medium", category_group |-> "cdn"],
      [domain |-> "api.openai.com", name |-> "OpenAI", jurisdiction |-> "United States",
        category |-> "AI/ML", risk_level |-> "Critical", category_group |-> "ai_services"],
      [domain |-> "api.anthropic.com", name |-> "Anthropic", jurisdiction |-> "United States",
        category |-> "AI/ML", risk_level |-> "Critical", category_group |-> "ai_services"],
      [domain |-> "googletagmanager.com", name |-> "Google Tag Manager", jurisdiction |-> "United States",
        category |-> "Tag Management", risk_level |-> "High", category_group |-> "tag_management"],
      [domain |-> "accounts.google.com", name |-> "Google OAuth", jurisdiction |-> "United States",
        category |-> "Authentication", risk_level |-> "High", category_group |-> "social_auth"] >>

-----------------------------------------------------------------------------
(* URLs, as urllib.parse computes them *)

SchemeChars == UpperLetters \o LowerLetters \o Digits \o "+-."

\* the length of the prefix of s made of characters of cs
RECURSIVE SpanLen(_, _)
SpanLen(s, cs) == IF s # "" /\ CharIn(CharAt(s, 1), cs) THEN 1 + SpanLen(SubSeq(s, 2, Len(s)), cs) ELSE 0

\* the length of the prefix of s before the first character of cs
RECURSIVE CSpanLen(_, _)
CSpanLen(s, cs) == IF s # "" /\ ~CharIn(CharAt(s, 1), cs) THEN 1 + CSpanLen(SubSeq(s, 2, Len(s)), cs) ELSE 0

\* urlsplit: the length of the scheme of url (0 when it has none)
SchemeLen(url) ==
    LET n == SpanLen(url, SchemeChars)
    IN  IF n > 0 /\ CharIn(CharAt(url, 1), UpperLetters \o LowerLetters) /\ CharAt(url, n + 1) = ":"
        THEN n ELSE 0

\* urlsplit: what follows the scheme and its colon
AfterScheme(url) == IF SchemeLen(url) > 0 THEN SubSeq(url, SchemeLen(url) + 2, Len(url)) ELSE url

\* urlparse(url).netloc: after "//", up to the first "/", "?" or "#"
netloc(url) ==
    LET rest == AfterScheme(url)
    IN  IF startswith(rest, "//")
        THEN SubSeq(rest, 3, 2 + CSpanLen(SubSeq(rest, 3, Len(rest)), "/?#"))
        ELSE ""

\* urlparse(urljoin(base_url, ref)).netloc: a reference with a scheme or a
\* network location keeps its own, any other reference takes the base's
joined_netloc(base_url, ref) ==
    IF SchemeLen(ref) > 0 \/ startswith(ref, "//") THEN netloc(ref) ELSE netloc(base_url)

-----------------------------------------------------------------------------
(* Resource Extractor: analyze_embedded_resources.  The page is its        *)
(* sequence of tags [tag, url]: what the regular expressions capture, in   *)
(* document order.  tag is "script", "link", "img", "iframe", "font-face"  *)
(* (a url() of an @font-face rule) or "fetch" (an inline API call).        *)

\* css_pattern: a <link> whose href holds ".css" after at least one character
IsStylesheetLink(t) ==
    t.tag = "link" /\ \E i \in 2..(Len(t.url) - 3) : lower(SubSeq(t.url, i, i + 3)) = ".css"

\* font_links: a <link> whose href holds "fonts"
IsFontLink(t) == t.tag = "link" /\ IsSubstring("fonts", lower(t.url))

\* if domain and domain not in urlparse(base_url).netloc
IsExternal(domain, base_url) == domain # "" /\ ~IsSubstring(domain, netloc(base_url))

\* the entries appended for the tags matched by one pattern
RECURSIVE ExternalEntries(_, _)
ExternalEntries(tags, base_url) ==
    IF tags = <<>> THEN <<>>
    ELSE LET domain == joined_netloc(base_url, Head(tags).url)
         IN  (IF IsExternal(domain, base_url)
              THEN <<[url |-> Head(tags).url, domain |-> domain]>> ELSE <<>>)
             \o ExternalEntries(Tail(tags), base_url)

\* api_calls: only url.startswith('http'), no same-site test
RECURSIVE ApiEntries(_)
ApiEntries(tags) ==
    IF tags = <<>> THEN <<>>
    ELSE (IF startswith(Head(tags).url, "http")
          THEN <<[url |-> Head(tags).url, domain |-> netloc(Head(tags).url)]>> ELSE <<>>)
         \o ApiEntries(Tail(tags))

IsScript(t) == t.tag = "script"
IsImage(t) == t.tag = "img"
IsIframe(t) == t.tag = "iframe"
IsFontFace(t) == t.tag = "font-face"
IsFetch(t) == t.tag = "fetch"

resources_by_type(html, base_url) ==
    [external_scripts     |-> ExternalEntries(SelectSeq(html, IsScript), base_url),
     external_stylesheets |-> ExternalEntries(SelectSeq(html, IsStylesheetLink), base_url),
     external_images      |-> ExternalEntries(SelectSeq(html, IsImage), base_url),
     iframes              |-> ExternalEntries(SelectSeq(html, IsIframe), base_url),
     external_fonts       |-> ExternalEntries(SelectSeq(html, IsFontFace) \o SelectSeq(html, IsFontLink), base_url),
     api_calls            |-> ApiEntries(SelectSeq(html, IsFetch))]

ResourceKinds == {"external_scripts", "external_stylesheets", "external_images",
                  "iframes", "external_fonts", "api_calls"}

\* all_domains: the set of the domains of every entry of every kind
all_domains(res) == UNION {{res[k][i].domain : i \in 1..Len(res[k])} : k \in ResourceKinds}

-----------------------------------------------------------------------------
(* Fingerprint Matcher *)

\* the markup of one tag, as the patterns of analyze_embedded_resources read it
RenderTag(t) ==
    CASE t.tag = "script"    -> "<script src=\"" \o t.url \o "\"></script>"
      [] t.tag = "link"      -> "<link rel=\"stylesheet\" href=\"" \o t.url \o "\">"
      [] t.tag = "img"       -> "<img src=\"" \o t.url \o "\">"
      [] t.tag = "iframe"    -> "<iframe src=\"" \o t.url \o "\"></iframe>"
      [] t.tag = "font-face" -> "<style>@font-face{src:url(" \o t.url \o ")}</style>"
      [] OTHER               -> "<script>fetch(\"" \o t.url \o "\")</script>"

RECURSIVE html_content(_)
html_content(tags) == IF tags = <<>> THEN "" ELSE RenderTag(Head(tags)) \o html_content(Tail(tags))

\* {**info, "domain": domain, "category_group": category}
DetectedService(entry) == entry

\* detect_known_services: every registry entry, in registry order, whose
\* domain is a substring of the lower-cased markup
detect_known_services(html) ==
    LET html_lower == lower(html)
        Hit(entry) == IsSubstring(entry.domain, html_lower)
    IN  SelectSeq(KNOWN_SERVICES, Hit)

\* (a matcher that compares the registry domain with the hostname for equality)
RECURSIVE match_known_services_exact(_)
match_known_services_exact(domains) ==
    IF domains = <<>> THEN <<>>
    ELSE LET Hit(entry) == entry.domain = Head(domains)
         IN  SelectSeq(KNOWN_SERVICES, Hit) \o match_known_services_exact(Tail(domains))

\* (a matcher that keeps, for each domain, only the entry with the longest
\* matching known_domain)
RECURSIVE match_known_services_longest(_)
match_known_services_longest(domains) ==
    IF domains = <<>> THEN <<>>
    ELSE LET Hits == {k \in 1..Len(KNOWN_SERVICES) : IsSubstring(KNOWN_SERVICES[k].domain, Head(domains))}
             Best == CHOOSE k \in Hits :
                        \A j \in Hits : Len(KNOWN_SERVICES[j].domain) <= Len(KNOWN_SERVICES[k].domain)
         IN  (IF Hits = {} THEN <<>> ELSE <<KNOWN_SERVICES[Best]>>)
             \o match_known_services_longest(Tail(domains))

\* match_known_services: for each domain, every registry entry whose
\* known_domain is a substring of it, appended in that nested order
RECURSIVE match_known_services(_)
match_known_services(domains) ==
    IF domains = <<>> THEN <<>>
    ELSE LET Hit(entry) == IsSubstring(entry.domain, Head(domains))
         IN  SelectSeq(KNOWN_SERVICES, Hit) \o match_known_services(Tail(domains))

-----------------------------------------------------------------------------
(* Merge Engine (backend/main.py; modelled from section 4.4 of the         *)
(* specification)                                                          *)

\* trim and case-fold, for comparison only
normalize_name(name) == lower(strip(name))

\* the index of the canonical vendor with this normalized name, 0 if none
FindVendor(canon, key) ==
    IF \E i \in 1..Len(canon) : normalize_name(canon[i].name) = key
    THEN CHOOSE i \in 1..Len(canon) :
            /\ normalize_name(canon[i].name) = key
            /\ \A j \in 1..(i - 1) : normalize_name(canon[j].name) # key
    ELSE 0

FromOracle(v) ==
    [name |-> v.name, purpose |-> v.purpose, location |-> v.location, risk |-> v.risk,
     detectionMethod |-> "ai-extraction"]

SeedFromKeepingAll(canon, rest) ==
    canon \o [i \in 1..Len(rest) |-> FromOracle(rest[i])]

\* step 1: seed the canonical set from the oracle's vendors, first mention wins
RECURSIVE SeedFrom(_, _)
SeedFrom(canon, rest) ==
    IF rest = <<>> THEN canon
    ELSE IF FindVendor(canon, normalize_name(Head(rest).name)) # 0
         THEN SeedFrom(canon, Tail(rest))
         ELSE SeedFrom(Append(canon, FromOracle(Head(rest))), Tail(rest))

SeedCanonicalSet(oracle) == SeedFrom(<<>>, oracle)

FallbackOverwrite(oracle_value, registry_value) == registry_value

\* field-level fallback: the oracle's value unless it is the sentinel
Fallback(oracle_value, registry_value) ==
    IF oracle_value = "Unknown" THEN registry_value ELSE oracle_value

\* step 3: a vendor sourced entirely from the registry entry
FromRegistry(svc) ==
    [name |-> svc.name, purpose |-> svc.category, location |-> svc.jurisdiction,
     risk |-> svc.risk_level, detectionMethod |-> "resource-fingerprint"]

\* step 2: the matched entry is marked "both" and its Unknown fields filled
MarkBoth(v, svc) ==
    [v EXCEPT !.detectionMethod = "both",
              !.purpose = Fallback(v.purpose, svc.category),
              !.location = Fallback(v.location, svc.jurisdiction),
              !.risk = Fallback(v.risk, svc.risk_level)]

\* (a merge that moves a matched vendor to the end of the sequence)
MergeServiceMovingMatch(canon, svc) ==
    LET i == FindVendor(canon, normalize_name(svc.name))
    IN  IF i # 0
        THEN SubSeq(canon, 1, i - 1) \o SubSeq(canon, i + 1, Len(canon))
                 \o <<MarkBoth(canon[i], svc)>>
        ELSE Append(canon, FromRegistry(svc))

\* steps 2 and 3 for one DetectedService
MergeService(canon, svc) ==
    LET i == FindVendor(canon, normalize_name(svc.name))
    IN  IF i # 0 THEN [canon EXCEPT ![i] = MarkBoth(canon[i], svc)]
        ELSE Append(canon, FromRegistry(svc))

RECURSIVE MergeAll(_, _)
MergeAll(canon, services) ==
    IF services = <<>> THEN canon
    ELSE MergeAll(MergeService(canon, Head(services)), Tail(services))

\* the Merge Engine as a function of its two inputs
merge_vendors(oracle, services) == MergeAll(SeedCanonicalSet(oracle), services)

-----------------------------------------------------------------------------
(* The inputs the model draws from *)

SeqsUpTo(S, n) == UNION {[1..k -> S] : k \in 0..n}

Tag(tag, url) == [tag |-> tag, url |-> url]

TagPool ==
    { Tag("script", "https://js.stripe.com/v3/"),
      Tag("link",   "https://fonts.googleapis.com/css2?family=Inter"),
      Tag("script", "/static/app.js"),
      Tag("img",    "//widget.intercom.io/logo.png"),
      Tag("iframe", "https://example.com/embed"),
      Tag("img",    "https://q.stripe.com/pixel.gif"),
      Tag("fetch",  "https://api.openai.com/v1/chat") }

BaseUrlPool == {"https://www.example.com/pricing"}

OracleVendor(name, purpose, location, risk) ==
    [name |-> name, purpose |-> purpose, location |-> location, risk |-> risk]

OraclePool ==
    { OracleVendor("Stripe", "Payment Processing", "United States", "Critical"),
      OracleVendor(" stripe ", "Unknown", "Germany", "Unknown"),
      OracleVendor("GOOGLE FONTS", "Unknown", "Unknown", "Unknown"),
      OracleVendor("Acme Analytics", "Analytics", "Germany", "Low"),
      OracleVendor("Intercom", "Customer Support", "Unknown", "High") }

\* the oracle results of the whole-analysis specification
AnalysisOraclePool ==
    { OracleVendor("Stripe", "Payment Processing", "United States", "Critical"),
      OracleVendor("Acme Analytics", "Analytics", "Germany", "Low") }

RegistryEntry(domain) == CHOOSE e \in {KNOWN_SERVICES[i] : i \in 1..Len(KNOWN_SERVICES)} : e.domain = domain

ServicePool ==
    { DetectedService(RegistryEntry("stripe.com")),
      DetectedService(RegistryEntry("js.stripe.com")),
      DetectedService(RegistryEntry("fonts.googleapis.com")),
      DetectedService(RegistryEntry("intercom.io")) }

NoResources ==
    [external_scripts |-> <<>>, external_stylesheets |-> <<>>, external_images |-> <<>>,
     iframes |-> <<>>, external_fonts |-> <<>>, api_calls |-> <<>>]

\* list(all_domains): the elements of a set in any order
Orderings(S) == {q \in [1..Cardinality(S) -> S] : \A i, j \in 1..Cardinality(S) : i # j => q[i] # q[j]}

\* no scoring run is in progress
NoFacts ==
    [registration |-> "Unknown", cloud |-> "none", storage_us |-> 0, processing_us |-> 0,
     us_offices |-> FALSE, eu_only_residency |-> FALSE, vendor_rule |-> "documented"]

ScoreIdle ==
    /\ facts = NoFacts
    /\ score = 0
    /\ deductions = <<>>
    /\ positive_factors = <<>>
    /\ risk_level = ""
    /\ nextVendor = 0
    /\ spc = "idle"

\* no call of calculate_weighted_score is in progress
WeightedIdle ==
    /\ wVendors = <<>>
    /\ wReordered = <<>>
    /\ wCall = 0
    /\ wIndex = 0
    /\ wScore = [neg |-> FALSE, int |-> 0, fhi |-> 0, flo |-> 0]
    /\ wResults = <<>>
    /\ wpc = "idle"

\* normalizeUrl has not been called
NormalizerIdle ==
    /\ nInput = ""
    /\ nOutput = ""
    /\ nAgain = ""
    /\ npc = "idle"

\* a received Response: ok and status, whether its body is JSON, the JSON's
\* detail member ("" when it has none), the body as text, the parsed data
Response(ok, status, json, detail, text, data) ==
    [ok |-> ok, status |-> status, json |-> json, detail |-> detail, text |-> text, data |-> data]

NoResponse == Response(FALSE, 0, FALSE, "", "", <<>>)

\* the App component as mounted: nothing submitted
AppIdle ==
    /\ loading = FALSE
    /\ error = <<>>
    /\ result = <<>>
    /\ currentUrl = <<>>
    /\ currentStep = 0
    /\ hpc = "idle"
    /\ timer = "unset"
    /\ response = NoResponse
    /\ bodyState = "none"
    /\ thrown = <<>>

\* one vendor as the oracle wrote it: the members it has, and their values
RawVendor(present, name, purpose, location, risk) ==
    [present |-> present, name |-> name, purpose |-> purpose, location |-> location, risk |-> risk]

\* the oracle's answer: kind is "none" (no text), "garbage" (no structured
\* data in the text), "truncated" (structured data cut short) or "json";
\* present are the members of the parsed object, malformed those of them
\* whose value has the wrong type; the other fields are the values
RawResponse(kind, present, malformed, vs, locations, summary, country, residency) ==
    [kind |-> kind, present |-> present, malformed |-> malformed, vendors |-> vs,
     storage_locations |-> locations, summary |-> summary,
     registration_country |-> country, data_residency |-> residency]

NoRawResponse == RawResponse("none", {}, {}, <<>>, <<>>, "", "", "")

\* the empty-but-valid result
EmptyExtraction ==
    [vendors |-> <<>>, storage_locations |-> <<>>, summary |-> "Unknown",
     registration_country |-> "Unknown", data_residency |-> "Unknown"]

\* the oracle has not been called
AdapterIdle ==
    /\ rawResponse = NoRawResponse
    /\ extraction = EmptyExtraction
    /\ diagnostics = <<>>
    /\ opc = "idle"

\* what analyze gives its caller: nothing yet, an AnalysisResult (in
\* result), or a failure with its type and detail
Outcome(kind, reason, detail, res) == [kind |-> kind, reason |-> reason, detail |-> detail, result |-> res]

NoOutcome == Outcome("none", "", "", <<>>)

\* no request is being served
RequestIdle ==
    /\ fetchStatus = "none"
    /\ textLength = 0
    /\ inFlight = 0
    /\ aborted = FALSE
    /\ outcome = NoOutcome
    /\ apc = "idle"

\* useState([]): no step has a list
NoThinkingSteps == [s \in 0..4 |-> <<>>]

\* Loading is not rendered
LoadingIdle ==
    /\ mounted = FALSE
    /\ lCurrentStep = 0
    /\ thinkingSteps = NoThinkingSteps
    /\ currentThinking = ""
    /\ intervals = {}

LaterIdle == NormalizerIdle /\ AppIdle /\ AdapterIdle /\ RequestIdle /\ LoadingIdle

-----------------------------------------------------------------------------
(* One analysis: the page is scraped and the oracle has answered *)

Init ==
    /\ page \in SeqsUpTo(TagPool, MaxTags)
    /\ baseUrl \in BaseUrlPool
    /\ oracleVendors \in SeqsUpTo(AnalysisOraclePool, MaxOracle)
    /\ resources = NoResources
    /\ uniqueDomains = <<>>
    /\ detectedServices = <<>>
    /\ vendors = <<>>
    /\ nextService = 0
    /\ mpc = "scraped"
    /\ ScoreIdle
    /\ WeightedIdle
    /\ LaterIdle

\* analyze_embedded_resources(html_content, base_url)
AnalyzeResources ==
    /\ mpc = "scraped"
    /\ resources' = resources_by_type(page, baseUrl)
    /\ uniqueDomains' \in Orderings(all_domains(resources_by_type(page, baseUrl)))
    /\ mpc' = "analyzed"
    /\ UNCHANGED <<page, baseUrl, oracleVendors, detectedServices, vendors, nextService, scoreVars, weightedVars, laterVars>>

\* the unique domains are matched against the registry
MatchServices ==
    /\ mpc = "analyzed"
    /\ detectedServices' = match_known_services(uniqueDomains)
    /\ mpc' = "matched"
    /\ UNCHANGED <<page, baseUrl, oracleVendors, resources, uniqueDomains, vendors, nextService, scoreVars, weightedVars, laterVars>>

\* Merge Engine, step 1
SeedCanonical ==
    /\ mpc = "matched"
    /\ vendors' = SeedCanonicalSet(oracleVendors)
    /\ nextService' = 1
    /\ mpc' = "merging"
    /\ UNCHANGED <<page, baseUrl, oracleVendors, resources, uniqueDomains, detectedServices, scoreVars, weightedVars, laterVars>>

\* Merge Engine, steps 2 and 3 for the next DetectedService
MergeNextService ==
    /\ mpc = "merging"
    /\ nextService <= Len(detectedServices)
    /\ vendors' = MergeService(vendors, detectedServices[nextService])
    /\ nextService' = nextService + 1
    /\ UNCHANGED <<page, baseUrl, oracleVendors, resources, uniqueDomains, detectedServices, mpc, scoreVars, weightedVars, laterVars>>

\* every DetectedService is merged: the canonical sequence is the result
FinishMerge ==
    /\ mpc = "merging"
    /\ nextService > Len(detectedServices)
    /\ mpc' = "merged"
    /\ UNCHANGED <<page, baseUrl, oracleVendors, resources, uniqueDomains, detectedServices,
                   vendors, nextService, scoreVars, weightedVars, laterVars>>

Next == AnalyzeResources \/ MatchServices \/ SeedCanonical \/ MergeNextService \/ FinishMerge

Spec == Init /\ [][Next]_vars

-----------------------------------------------------------------------------
(* The Merge Engine alone, on any oracle list and any DetectedService list *)

InitMerge ==
    /\ page = <<>>
    /\ baseUrl = ""
    /\ oracleVendors \in SeqsUpTo(OraclePool, MaxOracle)
    /\ resources = NoResources
    /\ uniqueDomains = <<>>
    /\ detectedServices \in SeqsUpTo(ServicePool, MaxDetected)
    /\ vendors = <<>>
    /\ nextService = 0
    /\ mpc = "matched"
    /\ ScoreIdle
    /\ WeightedIdle
    /\ LaterIdle

NextMerge == SeedCanonical \/ MergeNextService \/ FinishMerge

SpecMerge == InitMerge /\ [][NextMerge]_vars

-----------------------------------------------------------------------------
(* The scoring run: calculate_score *)

\* CATEGORY_WEIGHTS, in the dict's insertion order; weights in tenths
CATEGORY_WEIGHTS ==
    << [category |-> "AI/ML",                weight |-> 15],
       [category |-> "Payment Processing",   weight |-> 14],
       [category |-> "Database/Storage",     weight |-> 14],
       [category |-> "Cloud Infrastructure", weight |-> 14],
       [category |-> "Authentication",       weight |-> 13],
       [category |-> "Email Service",        weight |-> 12],
       [category |-> "Customer Support",     weight |-> 12],
       [category |-> "Analytics",            weight |-> 10],
       [category |-> "Monitoring",           weight |-> 10],
       [category |-> "CDN",                  weight |-> 8],
       [category |-> "Fonts",                weight |-> 7],
       [category |-> "Tag Management",       weight |-> 11] >>

\* return 1.0  # Default weight (in tenths)
DefaultWeight == 10

Min(S) == CHOOSE x \in S : \A y \in S : x <= y

Max(S) == CHOOSE x \in S : \A y \in S : x >= y

\* a weight table whose last matching entry wins
get_category_weight_last(purpose) ==
    LET purpose_upper == upper(purpose)
        hits == {i \in 1..Len(CATEGORY_WEIGHTS) :
                    IsSubstring(upper(CATEGORY_WEIGHTS[i].category), purpose_upper)}
    IN  IF hits = {} THEN DefaultWeight ELSE CATEGORY_WEIGHTS[Max(hits)].weight

\* get_category_weight(purpose): the weight of the first entry, in table
\* order, whose upper-cased name is in the upper-cased purpose
get_category_weight(purpose) ==
    LET purpose_upper == upper(purpose)
        hits == {i \in 1..Len(CATEGORY_WEIGHTS) :
                    IsSubstring(upper(CATEGORY_WEIGHTS[i].category), purpose_upper)}
    IN  IF hits = {} THEN DefaultWeight ELSE CATEGORY_WEIGHTS[Min(hits)].weight

base_penalty == 12

\* int(base_penalty * category_weight): the product is positive, so int()
\* is the floor; none of 12 * w is within a rounding error of an integer
\* it does not equal, so the binary64 product truncates to the same value
weighted_penalty(purpose) == (base_penalty * get_category_weight(purpose)) \div 10

\* str(n) of a natural number
RECURSIVE IntToStr(_)
IntToStr(n) ==
    IF n < 10 THEN CharAt(Digits, n + 1)
    ELSE IntToStr(n \div 10) \o CharAt(Digits, (n % 10) + 1)

\* the f-string rendering of a weight: 1.5, 1.0, 0.8
FormatWeight(w) == IntToStr(w \div 10) \o "." \o IntToStr(w % 10)

\* f"-{weighted_penalty}: {vendor_name} is US-based ({purpose}, weight={category_weight})"
WeightedReason(vendor_name, purpose) ==
    "-" \o IntToStr(weighted_penalty(purpose)) \o ": " \o vendor_name \o " is US-based ("
        \o purpose \o ", weight=" \o FormatWeight(get_category_weight(purpose)) \o ")"

\* a deduction or bonus of the documented amount, with its label
FixedReason(sign, amount, label) == sign \o IntToStr(amount) \o ": " \o label

\* if "US" in vendor["location"]
IsUSBased(location) == IsSubstring("US", location)

\* -5 points for "Global" location
IsGlobal(location) == IsSubstring("Global", location)

\* High-risk AI vendors (OpenAI, Anthropic)
IsHighRiskAI(name) == name \in {"OpenAI", "Anthropic"}

\* US-based AI/Hosting vendor
IsAIOrHosting(purpose) == IsSubstring("AI", purpose) \/ IsSubstring("Hosting", purpose)

USRegistrationPenalty == 15
USOfficesPenalty == 5
EURegistrationBonus == 5
USCloudPenalty == 20
USCloudWithEURegionsPenalty == 5
USStoragePenalty == 15
USProcessingPenalty == 10
EUOnlyResidencyBonus == 10
USVendorPenalty == 10
HighRiskVendorPenalty == 20
GlobalVendorPenalty == 5
StartingScore == 100

\* the running totals of one scoring run
Ledger(s, d, p) == [score |-> s, deductions |-> d, positive_factors |-> p]

\* an applied deduction that leaves no reason behind
DeductSilently(l, amount, reason) == [l EXCEPT !.score = @ - amount]

\* score -= amount; deductions.append(reason)
Deduct(l, amount, reason) ==
    [l EXCEPT !.score = @ - amount, !.deductions = Append(@, reason)]

\* score += amount; the bonus is recorded as a positive factor
Bonus(l, amount, reason) ==
    [l EXCEPT !.score = @ + amount, !.positive_factors = Append(@, reason)]

\* one deduction per location
RECURSIVE DeductEach(_, _, _, _)
DeductEach(l, n, amount, reason) ==
    IF n = 0 THEN l ELSE DeductEach(Deduct(l, amount, reason), n - 1, amount, reason)

\* 1. Company registration in US: -15; EU registration: +5
ApplyRegistration(l, f) ==
    IF f.registration = "US" THEN Deduct(l, USRegistrationPenalty, FixedReason("-", USRegistrationPenalty, "US registration"))
    ELSE IF f.registration = "EU" THEN Bonus(l, EURegistrationBonus, FixedReason("+", EURegistrationBonus, "EU registration"))
    ELSE l

\* 2. US cloud infrastructure: -5 to -20
ApplyInfrastructure(l, f) ==
    IF f.cloud = "US" THEN Deduct(l, USCloudPenalty, FixedReason("-", USCloudPenalty, "US cloud provider (no EU regions)"))
    ELSE IF f.cloud = "US+EU" THEN Deduct(l, USCloudWithEURegionsPenalty, FixedReason("-", USCloudWithEURegionsPenalty, "US cloud provider (with EU regions)"))
    ELSE l

\* 3. US data storage: -15 per location; 4. US data processing: -10 per
\* location; EU-only data residency: +10
ApplyDataFlows(l, f) ==
    LET stored == DeductEach(l, f.storage_us, USStoragePenalty, FixedReason("-", USStoragePenalty, "Data stored in US"))
        processed == DeductEach(stored, f.processing_us, USProcessingPenalty, FixedReason("-", USProcessingPenalty, "Data processed in US"))
    IN  IF f.eu_only_residency
        THEN Bonus(processed, EUOnlyResidencyBonus, FixedReason("+", EUOnlyResidencyBonus, "EU-only data residency"))
        ELSE processed

\* 5. US employees/offices: -5
ApplyOffices(l, f) ==
    IF f.us_offices THEN Deduct(l, USOfficesPenalty, FixedReason("-", USOfficesPenalty, "US offices/employees"))
    ELSE l

\* the documented vendor rule: -10 per US-based vendor, -20 (total) for a
\* US-based AI/Hosting vendor and for a high-risk AI vendor, -5 for Global
DocumentedPenalty(v) ==
    IF IsHighRiskAI(v.name) THEN HighRiskVendorPenalty
    ELSE IF IsUSBased(v.location) THEN (IF IsAIOrHosting(v.purpose) THEN HighRiskVendorPenalty ELSE USVendorPenalty)
    ELSE IF IsGlobal(v.location) THEN GlobalVendorPenalty
    ELSE 0

\* the penalty of one vendor under the rule in force
VendorPenalty(rule, v) ==
    IF rule = "weighted" /\ IsUSBased(v.location) THEN weighted_penalty(v.purpose)
    ELSE IF rule = "weighted" THEN (IF IsGlobal(v.location) THEN GlobalVendorPenalty ELSE 0)
    ELSE DocumentedPenalty(v)

VendorReason(rule, v) ==
    IF rule = "weighted" /\ IsUSBased(v.location) THEN WeightedReason(v.name, v.purpose)
    ELSE FixedReason("-", VendorPenalty(rule, v), v.name \o " (" \o v.location \o ")")

\* 6-8. the deduction of one vendor, if it has one
ApplyVendor(l, rule, v) ==
    IF VendorPenalty(rule, v) > 0 THEN Deduct(l, VendorPenalty(rule, v), VendorReason(rule, v))
    ELSE l

\* a clamp that lets a negative total through
clamp_above(total) == IF total > 100 THEN 100 ELSE total

\* return max(0, min(100, score))
clamp(total) == Max({0, Min({100, total})})

HighBelow == 70
LowFrom == 90

\* a classification whose High band includes 70
RiskLevelInclusive(s) == IF s <= HighBelow THEN "High" ELSE IF s < LowFrom THEN "Medium" ELSE "Low"

\* High Risk: < 70 points; Medium Risk: 70-89 points; Low Risk: 90+ points
RiskLevel(s) == IF s < HighBelow THEN "High" ELSE IF s < LowFrom THEN "Medium" ELSE "Low"

\* the inputs of the scoring runs
Vendor(name, purpose, location, risk) ==
    [name |-> name, purpose |-> purpose, location |-> location, risk |-> risk,
     detectionMethod |-> "ai-extraction"]

VendorPool ==
    << Vendor("OpenAI", "AI/ML", "US", "Critical"),
       Vendor("Hetzner", "Hosting", "Germany", "Low"),
       Vendor("Google Fonts", "CDN/Fonts", "US", "Medium"),
       Vendor("Cloudflare", "CDN", "Global", "Medium"),
       Vendor("Postmark", "transactional email service", "US", "High"),
       Vendor("Stripe", "Payment Processing", "United States", "Critical") >>

\* the elements of seq at the indices of I, in order
RECURSIVE Pick(_, _)
Pick(seq, I) ==
    IF I = {} THEN <<>> ELSE <<seq[Min(I)]>> \o Pick(seq, I \ {Min(I)})

\* the vendor lists scored: up to n vendors of the pool
VendorLists(n) == {Pick(VendorPool, I) : I \in {J \in SUBSET (1..Len(VendorPool)) : Cardinality(J) <= n}}

FactsPool ==
    { f \in [registration : {"US", "EU", "Unknown"},
             cloud : {"none", "US", "US+EU"},
             storage_us : 0..MaxLocations,
             processing_us : 0..MaxLocations,
             us_offices : BOOLEAN,
             eu_only_residency : BOOLEAN,
             vendor_rule : {"documented", "weighted"}] :
        f.storage_us + f.processing_us <= MaxLocations }

\* "Example SaaS Inc": 15 sub-processors (10 US-based, 5 EU-based)
ExampleUSVendors == 10
ExampleSubProcessors == 15

ExampleVendors ==
    [i \in 1..ExampleSubProcessors |->
        IF i <= ExampleUSVendors
        THEN Vendor("US vendor " \o IntToStr(i), "Analytics", "US", "High")
        ELSE Vendor("EU vendor " \o IntToStr(i), "Analytics", "Germany", "Low")]

\* registered in Delaware, USA; uses AWS, data centers in US-East and EU-West
ExampleFacts ==
    { f \in [registration : {"US"}, cloud : {"US+EU"}, storage_us : {0}, processing_us : {0},
             us_offices : BOOLEAN, eu_only_residency : {FALSE}, vendor_rule : {"documented"}] : TRUE }

\* the analysis is over: its vendors are what is scored
AnalysisDone ==
    /\ page = <<>>
    /\ baseUrl = ""
    /\ oracleVendors = <<>>
    /\ resources = NoResources
    /\ uniqueDomains = <<>>
    /\ detectedServices = <<>>
    /\ nextService = 0
    /\ mpc = "merged"

\* Starting Score: 100 points
InitScore ==
    /\ AnalysisDone
    /\ \/ facts \in FactsPool /\ vendors \in VendorLists(MaxVendors)
       \/ facts \in ExampleFacts /\ vendors = ExampleVendors
    /\ score = StartingScore
    /\ deductions = <<>>
    /\ positive_factors = <<>>
    /\ risk_level = ""
    /\ nextVendor = 0
    /\ spc = "registration"
    /\ WeightedIdle
    /\ LaterIdle

\* the running totals become those of the ledger
Record(l) ==
    /\ score' = l.score
    /\ deductions' = l.deductions
    /\ positive_factors' = l.positive_factors

ScoreRegistration ==
    /\ spc = "registration"
    /\ Record(ApplyRegistration(Ledger(score, deductions, positive_factors), facts))
    /\ spc' = "infrastructure"
    /\ UNCHANGED <<analysisVars, weightedVars, laterVars, vendors, facts, risk_level, nextVendor>>

ScoreInfrastructure ==
    /\ spc = "infrastructure"
    /\ Record(ApplyInfrastructure(Ledger(score, deductions, positive_factors), facts))
    /\ spc' = "data_flows"
    /\ UNCHANGED <<analysisVars, weightedVars, laterVars, vendors, facts, risk_level, nextVendor>>

ScoreDataFlows ==
    /\ spc = "data_flows"
    /\ Record(ApplyDataFlows(Ledger(score, deductions, positive_factors), facts))
    /\ spc' = "offices"
    /\ UNCHANGED <<analysisVars, weightedVars, laterVars, vendors, facts, risk_level, nextVendor>>

ScoreOffices ==
    /\ spc = "offices"
    /\ Record(ApplyOffices(Ledger(score, deductions, positive_factors), facts))
    /\ spc' = "vendors"
    /\ nextVendor' = 1
    /\ UNCHANGED <<analysisVars, weightedVars, laterVars, vendors, facts, risk_level>>

\* for vendor in vendors
ScoreVendor ==
    /\ spc = "vendors"
    /\ nextVendor <= Len(vendors)
    /\ Record(ApplyVendor(Ledger(score, deductions, positive_factors), facts.vendor_rule, vendors[nextVendor]))
    /\ nextVendor' = nextVendor + 1
    /\ UNCHANGED <<analysisVars, weightedVars, laterVars, vendors, facts, risk_level, spc>>

\* the total is clamped once and classified
FinishScore ==
    /\ spc = "vendors"
    /\ nextVendor > Len(vendors)
    /\ score' = clamp(score)
    /\ risk_level' = RiskLevel(clamp(score))
    /\ spc' = "scored"
    /\ UNCHANGED <<analysisVars, weightedVars, laterVars, vendors, facts, deductions, positive_factors, nextVendor>>

NextScore ==
    \/ ScoreRegistration
    \/ ScoreInfrastructure
    \/ ScoreDataFlows
    \/ ScoreOffices
    \/ ScoreVendor
    \/ FinishScore

SpecScore == InitScore /\ [][NextScore]_vars

-----------------------------------------------------------------------------
(* Python floats (IEEE-754 binary64), for the values that                  *)
(* calculate_weighted_score computes: a number is its sign, its integer    *)
(* part and its fraction in units of 2^-53, the fraction held as a high    *)
(* limb (units of 2^-27) and a low limb of 26 bits.  Every weight, every   *)
(* product 12 * weight and every difference of such numbers is a multiple  *)
(* of 2^-53, so the exact results are representable here and only the      *)
(* rounding to 53 significant bits has to be computed.                     *)

LoBase == 2^26
HiBase == 2^27

Float(i, h, l) == [neg |-> FALSE, int |-> i, fhi |-> h, flo |-> l]

\* float(n) of a Python int
FromInt(n) == [neg |-> n < 0, int |-> IF n < 0 THEN 0 - n ELSE n, fhi |-> 0, flo |-> 0]

MagIsZero(m) == m.int = 0 /\ m.fhi = 0 /\ m.flo = 0

MagLess(a, b) ==
    \/ a.int < b.int
    \/ a.int = b.int /\ a.fhi < b.fhi
    \/ a.int = b.int /\ a.fhi = b.fhi /\ a.flo < b.flo

\* the exact sum of two magnitudes
MagAdd(a, b) ==
    LET lo == a.flo + b.flo
        hi == a.fhi + b.fhi + (lo \div LoBase)
    IN  [neg |-> FALSE, int |-> a.int + b.int + (hi \div HiBase), fhi |-> hi % HiBase, flo |-> lo % LoBase]

\* the exact difference of two magnitudes, the first not the smaller
MagSub(a, b) ==
    LET lo == a.flo - b.flo
        borrowLo == IF lo < 0 THEN 1 ELSE 0
        hi == a.fhi - b.fhi - borrowLo
        borrowHi == IF hi < 0 THEN 1 ELSE 0
    IN  [neg |-> FALSE, int |-> a.int - b.int - borrowHi,
         fhi |-> hi + borrowHi * HiBase, flo |-> lo + borrowLo * LoBase]

\* the exact product of a small positive integer and a magnitude
MagTimes(k, a) ==
    LET lo == k * a.flo
        hi == k * a.fhi + (lo \div LoBase)
    IN  [neg |-> FALSE, int |-> k * a.int + (hi \div HiBase), fhi |-> hi % HiBase, flo |-> lo % LoBase]

RECURSIVE Log2(_)
Log2(i) == IF i <= 1 THEN 0 ELSE 1 + Log2(i \div 2)

\* the spacing of the doubles around a magnitude with integer part i >= 1,
\* in units of 2^-53
Quantum(i) == 2^(Log2(i) + 1)

\* a rounding that truncates toward zero
TruncateMag(m) ==
    IF m.int = 0 THEN m ELSE [m EXCEPT !.flo = m.flo - (m.flo % Quantum(m.int))]

\* round to nearest, ties to even, at 53 significant bits
RoundMag(m) ==
    IF m.int = 0 THEN m
    ELSE LET q == Quantum(m.int)
             r == m.flo % q
             down == m.flo - r
             up == (2 * r > q) \/ (2 * r = q /\ (m.flo \div q) % 2 = 1)
             lo == down + q
             hi == m.fhi + (lo \div LoBase)
         IN  IF ~up THEN [m EXCEPT !.flo = down]
             ELSE [m EXCEPT !.int = m.int + (hi \div HiBase), !.fhi = hi % HiBase, !.flo = lo % LoBase]

WithSign(neg, m) == IF MagIsZero(m) THEN [m EXCEPT !.neg = FALSE] ELSE [m EXCEPT !.neg = neg]

\* a + b
FAdd(a, b) ==
    IF a.neg = b.neg THEN WithSign(a.neg, RoundMag(MagAdd(a, b)))
    ELSE IF MagLess(a, b) THEN WithSign(b.neg, RoundMag(MagSub(b, a)))
    ELSE WithSign(a.neg, RoundMag(MagSub(a, b)))

\* a - b
FSub(a, b) == FAdd(a, WithSign(~b.neg, b))

\* k * a for a Python int k > 0
FTimes(k, a) == WithSign(a.neg, RoundMag(MagTimes(k, a)))

\* a < b
FLess(a, b) ==
    IF a.neg /\ ~b.neg THEN TRUE
    ELSE IF ~a.neg /\ b.neg THEN FALSE
    ELSE IF a.neg THEN MagLess(b, a)
    ELSE MagLess(a, b)

\* the value is a whole number
IsIntegral(x) == x.fhi = 0 /\ x.flo = 0

-----------------------------------------------------------------------------
(* calculate_weighted_score(vendors) *)

VENDOR_CATEGORY_WEIGHTS ==
    << [category |-> "Database/Storage",      weight |-> Float(1, 67108864, 0)],          \* 1.5
       [category |-> "Cloud Infrastructure",  weight |-> Float(1, 53687091, 13421772)],   \* 1.4
       [category |-> "Authentication",        weight |-> Float(1, 53687091, 13421772)],   \* 1.4
       [category |-> "Payment Processing",    weight |-> Float(1, 53687091, 13421772)],   \* 1.4
       [category |-> "AI/ML Processing",      weight |-> Float(1, 67108864, 0)],          \* 1.5
       [category |-> "Email Service",         weight |-> Float(1, 26843545, 40265318)],   \* 1.2
       [category |-> "Customer Support",      weight |-> Float(1, 26843545, 40265318)],   \* 1.2
       [category |-> "SMS/Communications",    weight |-> Float(1, 26843545, 40265318)],   \* 1.2
       [category |-> "Backup/DR",             weight |-> Float(1, 40265318, 26843546)],   \* 1.3
       [category |-> "Analytics",             weight |-> Float(1, 0, 0)],                 \* 1.0
       [category |-> "Monitoring/APM",        weight |-> Float(1, 0, 0)],                 \* 1.0
       [category |-> "Error Tracking",        weight |-> Float(1, 0, 0)],                 \* 1.0
       [category |-> "CDN",                   weight |-> Float(0, 107374182, 26843546)],  \* 0.8
       [category |-> "DNS",                   weight |-> Float(0, 80530636, 53687091)],   \* 0.6
       [category |-> "Marketing/Email",       weight |-> Float(0, 120795955, 13421773)],  \* 0.9
       [category |-> "A/B Testing",           weight |-> Float(0, 107374182, 26843546)] >> \* 0.8

\* VENDOR_CATEGORY_WEIGHTS.get(category, 1.0)
weight_of(category) ==
    IF \E i \in 1..Len(VENDOR_CATEGORY_WEIGHTS) : VENDOR_CATEGORY_WEIGHTS[i].category = category
    THEN VENDOR_CATEGORY_WEIGHTS[CHOOSE i \in 1..Len(VENDOR_CATEGORY_WEIGHTS) :
                                     VENDOR_CATEGORY_WEIGHTS[i].category = category].weight
    ELSE Float(1, 0, 0)

\* the penalty of one vendor: 12 * weight, 8 * weight or 0
penalty_of(vendor) ==
    IF IsSubstring("US", vendor.location) THEN FTimes(12, weight_of(vendor.category))
    ELSE IF IsSubstring("GLOBAL", vendor.location) THEN FTimes(8, weight_of(vendor.category))
    ELSE FromInt(0)

\* max(0, min(100, score))
clamp_score(x) ==
    IF FLess(x, FromInt(0)) THEN FromInt(0)
    ELSE IF FLess(FromInt(100), x) THEN FromInt(100)
    ELSE x

\* the risk level of a returned score
RiskLevelOf(x) ==
    IF FLess(x, FromInt(HighBelow)) THEN "High"
    ELSE IF FLess(x, FromInt(LowFrom)) THEN "Medium"
    ELSE "Low"

WeightedVendor(category, location) == [category |-> category, location |-> location]

WeightedPool ==
    { WeightedVendor("DNS", "US"),
      WeightedVendor("Backup/DR", "US"),
      WeightedVendor("Email Service", "US"),
      WeightedVendor("Analytics", "GLOBAL"),
      WeightedVendor("CDN", "Germany") }

\* the same vendors in every order
Reorderings(list) ==
    { [i \in 1..Len(list) |-> list[p[i]]] : p \in Orderings(1..Len(list)) }

\* two calls are made: on a vendor list, then on a reordering of it
InitWeighted ==
    /\ AnalysisDone
    /\ vendors = <<>>
    /\ ScoreIdle
    /\ LaterIdle
    /\ wVendors \in SeqsUpTo(WeightedPool, MaxWeighted)
    /\ wReordered \in Reorderings(wVendors)
    /\ wCall = 1
    /\ wIndex = 1
    /\ wScore = FromInt(100)
    /\ wResults = <<>>
    /\ wpc = "loop"

CurrentList == IF wCall = 1 THEN wVendors ELSE wReordered

\* for vendor in vendors: ... score -= penalty
WeightedLoop ==
    /\ wpc = "loop"
    /\ wIndex <= Len(CurrentList)
    /\ wScore' = FSub(wScore, penalty_of(CurrentList[wIndex]))
    /\ wIndex' = wIndex + 1
    /\ UNCHANGED <<analysisVars, vendors, scoreVars, laterVars, wVendors, wReordered, wCall, wResults, wpc>>

\* return max(0, min(100, score))
WeightedReturn ==
    /\ wpc = "loop"
    /\ wIndex > Len(CurrentList)
    /\ wResults' = Append(wResults, clamp_score(wScore))
    /\ wpc' = "returned"
    /\ UNCHANGED <<analysisVars, vendors, scoreVars, laterVars, wVendors, wReordered, wCall, wIndex, wScore>>

\* the second call: score = 100
WeightedCallAgain ==
    /\ wpc = "returned"
    /\ wCall = 1
    /\ wCall' = 2
    /\ wIndex' = 1
    /\ wScore' = FromInt(100)
    /\ wpc' = "loop"
    /\ UNCHANGED <<analysisVars, vendors, scoreVars, laterVars, wVendors, wReordered, wResults>>

NextWeighted == WeightedLoop \/ WeightedReturn \/ WeightedCallAgain

SpecWeighted == InitWeighted /\ [][NextWeighted]_vars

-----------------------------------------------------------------------------
(* Properties of the Merge Engine *)

NormalizedNames(records) == {normalize_name(records[i].name) : i \in 1..Len(records)}

\* the first record of the sequence with this normalized name
FirstNamed(records, key) ==
    records[CHOOSE i \in 1..Len(records) :
                /\ normalize_name(records[i].name) = key
                /\ \A j \in 1..(i - 1) : normalize_name(records[j].name) # key]

\* C1: at every point of the merge, no two vendors of the canonical
\* sequence have the same trimmed, case-folded name, whatever the oracle
\* list (duplicates included) and the DetectedService list.
C1_UniqueNormalizedNames ==
    \A i, j \in 1..Len(vendors) :
        i # j => normalize_name(vendors[i].name) # normalize_name(vendors[j].name)

\* a finished merge whose oracle list names one vendor twice (up to case and
\* blanks) and whose DetectedService list names it too
C1_Witness ==
    /\ mpc = "merged"
    /\ Len(oracleVendors) = 2
    /\ oracleVendors[1].name # oracleVendors[2].name
    /\ normalize_name(oracleVendors[1].name) = normalize_name(oracleVendors[2].name)
    /\ normalize_name(oracleVendors[1].name) \in NormalizedNames(detectedServices)
    /\ Len(vendors) = 1

\* C2: a vendor named by the oracle and by a DetectedService keeps the
\* oracle's display name, and each of purpose, location and risk is the
\* oracle's value unless that value is "Unknown", in which case it is the
\* registry entry's category, jurisdiction or risk_level.
C2_FieldLevelFallback ==
    mpc = "merged" =>
        \A k \in 1..Len(vendors) :
            LET key == normalize_name(vendors[k].name)
            IN  (key \in NormalizedNames(oracleVendors) /\ key \in NormalizedNames(detectedServices)) =>
                    LET o == FirstNamed(oracleVendors, key)
                        d == FirstNamed(detectedServices, key)
                    IN  /\ vendors[k].name = o.name
                        /\ vendors[k].purpose = (IF o.purpose # "Unknown" THEN o.purpose ELSE d.category)
                        /\ vendors[k].location = (IF o.location # "Unknown" THEN o.location ELSE d.jurisdiction)
                        /\ vendors[k].risk = (IF o.risk # "Unknown" THEN o.risk ELSE d.risk_level)

\* the oracle says " stripe " is in Germany and leaves purpose and risk
\* Unknown; the registry says Stripe is in the United States
C2_Witness ==
    /\ mpc = "merged"
    /\ \E k \in 1..Len(vendors) :
          /\ vendors[k].name = " stripe "
          /\ vendors[k].location = "Germany"
          /\ vendors[k].purpose = "Payment Processing"
          /\ vendors[k].risk = "Critical"
          /\ vendors[k].detectionMethod = "both"
    /\ \E i \in 1..Len(detectedServices) :
          detectedServices[i].name = "Stripe" /\ detectedServices[i].jurisdiction = "United States"

\* C4: in the merged sequence a vendor is "both" exactly when its
\* normalized name is in the oracle list and in the DetectedService list,
\* "resource-fingerprint" exactly when it is only in the DetectedService
\* list, and "ai-extraction" exactly when it is only in the oracle list.
C4_DetectionMethod ==
    mpc = "merged" =>
        \A k \in 1..Len(vendors) :
            LET key == normalize_name(vendors[k].name)
                inOracle == key \in NormalizedNames(oracleVendors)
                inDetected == key \in NormalizedNames(detectedServices)
            IN  /\ vendors[k].detectionMethod = "both" <=> (inOracle /\ inDetected)
                /\ vendors[k].detectionMethod = "resource-fingerprint" <=> (~inOracle /\ inDetected)
                /\ vendors[k].detectionMethod = "ai-extraction" <=> (inOracle /\ ~inDetected)

-----------------------------------------------------------------------------
(* The scenario of one page referencing fonts.googleapis.com and           *)
(* js.stripe.com, with the oracle finding Stripe                           *)

StripeScenario ==
    /\ Len(page) = 2
    /\ {page[1], page[2]} = { Tag("link", "https://fonts.googleapis.com/css2?family=Inter"),
                              Tag("script", "https://js.stripe.com/v3/") }
    /\ oracleVendors = <<OracleVendor("Stripe", "Payment Processing", "United States", "Critical")>>

VendorSet(vs) == {vs[k] : k \in 1..Len(vs)}

ScenarioVendors ==
    { [name |-> "Stripe", purpose |-> "Payment Processing", location |-> "United States",
       risk |-> "Critical", detectionMethod |-> "both"],
      [name |-> "Google Fonts", purpose |-> "CDN/Fonts", location |-> "United States",
       risk |-> "Medium", detectionMethod |-> "resource-fingerprint"],
      [name |-> "Stripe.js", purpose |-> "Payment Processing", location |-> "United States",
       risk |-> "Critical", detectionMethod |-> "resource-fingerprint"] }

-----------------------------------------------------------------------------
(* Properties of the scoring run *)

ClaimedWeight(purpose) ==
    LET Matches(i) == IsSubstring(lower(CATEGORY_WEIGHTS[i].category), lower(purpose))
    IN  IF \E i \in 1..Len(CATEGORY_WEIGHTS) : Matches(i)
        THEN CATEGORY_WEIGHTS[CHOOSE i \in 1..Len(CATEGORY_WEIGHTS) :
                                  Matches(i) /\ \A j \in 1..(i - 1) : ~Matches(j)].weight
        ELSE 10

ProtectedLocations == {"Germany", "France", "EU (Estonia)"}

RECURSIVE StrToInt(_)
StrToInt(d) ==
    IF d = "" THEN 0
    ELSE 10 * StrToInt(SubSeq(d, 1, Len(d) - 1)) + (IndexIn(CharAt(d, Len(d)), Digits) - 1)

\* the amount a reason string states: the numeral between its sign and ":"
ParseAmount(reason) == StrToInt(SubSeq(reason, 2, 1 + CSpanLen(SubSeq(reason, 2, Len(reason)), ":")))

RECURSIVE SumAmounts(_)
SumAmounts(reasons) ==
    IF reasons = <<>> THEN 0 ELSE ParseAmount(Head(reasons)) + SumAmounts(Tail(reasons))

\* the replay of the reason lists
Replay == StartingScore - SumAmounts(deductions) + SumAmounts(positive_factors)

Count(b) == IF b THEN 1 ELSE 0

\* the vendors of the run that carry a penalty, in the run's order
ChargedVendors ==
    LET Charged(v) == VendorPenalty(facts.vendor_rule, v) > 0
    IN  SelectSeq(vendors, Charged)

\* the deductions and bonuses the facts call for
ExpectedDeductions ==
    Count(facts.registration = "US") + Count(facts.cloud # "none") + facts.storage_us
        + facts.processing_us + Count(facts.us_offices) + Len(ChargedVendors)

ExpectedBonuses == Count(facts.registration = "EU") + Count(facts.eu_only_residency)

ExampleScenario ==
    /\ facts.registration = "US"
    /\ facts.cloud = "US+EU"
    /\ facts.vendor_rule = "documented"
    /\ Len(ChargedVendors) = 10
    /\ \A k \in 1..Len(ChargedVendors) : VendorPenalty(facts.vendor_rule, ChargedVendors[k]) = 10

-----------------------------------------------------------------------------
(* Properties of calculate_weighted_score *)

\* C5: every score returned by the scoring function is an integer in
\* [0, 100].
C5_IntegerScoreInRange ==
    \A k \in 1..Len(wResults) :
        /\ IsIntegral(wResults[k])
        /\ ~FLess(wResults[k], FromInt(0))
        /\ ~FLess(FromInt(100), wResults[k])

\* C6: the calls on two orderings of the same vendors return the same
\* score and the same risk level.
C6_OrderIndependent ==
    (wpc = "returned" /\ wCall = 2) =>
        /\ wResults[1] = wResults[2]
        /\ RiskLevelOf(wResults[1]) = RiskLevelOf(wResults[2])

-----------------------------------------------------------------------------
(* Properties of the Resource Extractor and of the Fingerprint Matcher *)

\* the kinds under which a reference of this tag is emitted
KindsOf(t) ==
    CASE t.tag = "script" -> {"external_scripts"}
      [] t.tag = "link"   -> {"external_stylesheets", "external_fonts"}
      [] t.tag = "img"    -> {"external_images"}
      [] t.tag = "iframe" -> {"iframes"}
      [] OTHER            -> {}

\* a DetectedResource was emitted for the reference t
Emitted(t) ==
    \E k \in KindsOf(t) : \E i \in 1..Len(resources[k]) : resources[k][i].url = t.url

\* C14: for every script, stylesheet, image and frame reference of the
\* page, the extractor emits a DetectedResource if and only if the hostname
\* of the reference, resolved against the base URL, is non-empty and
\* differs from the hostname of the base URL.
C14_EmittedIffOtherHost ==
    mpc # "scraped" =>
        \A i \in 1..Len(page) :
            LET t == page[i]
                host == joined_netloc(baseUrl, t.url)
            IN  KindsOf(t) # {} =>
                    (Emitted(t) <=> (host # "" /\ host # netloc(baseUrl)))

\* the registry entries whose fragment occurs in the hostname h
Fragments(h) == {k \in 1..Len(KNOWN_SERVICES) : IsSubstring(KNOWN_SERVICES[k].domain, h)}

\* the entry of the longest fragment that occurs in h
Longest(h) ==
    CHOOSE k \in Fragments(h) :
        \A j \in Fragments(h) : Len(KNOWN_SERVICES[j].domain) <= Len(KNOWN_SERVICES[k].domain)

RECURSIVE MatchesBefore(_, _)
MatchesBefore(domains, n) ==
    IF n = 0 THEN 0 ELSE MatchesBefore(domains, n - 1) + Cardinality(Fragments(domains[n]))

\* the rank of the entry k among the entries matched by the hostname h
RankIn(h, k) == Cardinality({j \in Fragments(h) : j <= k})

C16_OnePerDisplayName ==
    mpc = "matched" =>
        /\ \A s, t \in 1..Len(detectedServices) :
              detectedServices[s].name = detectedServices[t].name => s = t
        /\ \A i \in 1..Len(uniqueDomains) : \A k \in Fragments(uniqueDomains[i]) :
              \E s \in 1..Len(detectedServices) : detectedServices[s].name = KNOWN_SERVICES[k].name
        /\ \A s \in 1..Len(detectedServices) :
              \E i \in 1..Len(uniqueDomains) :
                  IsSubstring(detectedServices[s].domain, uniqueDomains[i])

-----------------------------------------------------------------------------
(* Order of the merged vendor sequence *)

\* the normalized names of the first n records
KeysUpTo(records, n) == {normalize_name(records[i].name) : i \in 1..n}

\* the DetectedServices merged so far
MergedSoFar == IF mpc = "merged" THEN Len(detectedServices) ELSE nextService - 1

\* C20: the merged vendor sequence lists the oracle's vendors first, in the
\* order the oracle returned them (first mention of a name), followed by
\* the fingerprint-only vendors in DetectedService order (first mention of a
\* name); this holds after every merged DetectedService, so a
\* DetectedService that matches an oracle vendor neither moves it nor adds
\* a second entry.
C20_OracleFirstOrder ==
    mpc \in {"merging", "merged"} =>
        LET oracleKeys == KeysUpTo(oracleVendors, Len(oracleVendors))
            n == MergedSoFar
        IN  /\ Len(vendors) = Cardinality(oracleKeys \cup KeysUpTo(detectedServices, n))
            /\ \A i \in 1..Len(oracleVendors) :
                  normalize_name(oracleVendors[i].name) \notin KeysUpTo(oracleVendors, i - 1) =>
                      vendors[Cardinality(KeysUpTo(oracleVendors, i))].name = oracleVendors[i].name
            /\ \A j \in 1..n :
                  normalize_name(detectedServices[j].name)
                      \notin (oracleKeys \cup KeysUpTo(detectedServices, j - 1)) =>
                      vendors[Cardinality(oracleKeys)
                              + Cardinality(KeysUpTo(detectedServices, j) \ oracleKeys)].name
                          = detectedServices[j].name

\* two oracle vendors, then a fingerprint-only service followed by a service
\* that matches the first oracle vendor
C20_Witness ==
    /\ mpc = "merged"
    /\ Len(oracleVendors) = 2
    /\ Len(detectedServices) = 2
    /\ normalize_name(detectedServices[1].name) \notin KeysUpTo(oracleVendors, 2)
    /\ normalize_name(detectedServices[2].name) = normalize_name(oracleVendors[1].name)
    /\ normalize_name(oracleVendors[2].name) # normalize_name(oracleVendors[1].name)
    /\ Len(vendors) = 3
    /\ vendors[1].name = oracleVendors[1].name
    /\ vendors[1].detectionMethod = "both"
    /\ vendors[2].name = oracleVendors[2].name
    /\ vendors[3].name = detectedServices[1].name
    /\ vendors[3].detectionMethod = "resource-fingerprint"

-----------------------------------------------------------------------------
(* utils/urlNormalizer.js: normalizeUrl.  The regular expressions are       *)
(* matched as the engine matches them: a character class with a quantifier *)
(* takes the longest run, since what follows each one is outside the class. *)

JsWhitespace == " \t\n\r"
LineTerminators == "\n\r"
Letters == UpperLetters \o LowerLetters
Alnum == Letters \o Digits
AlnumHyphen == Alnum \o "-"

\* s from its i-th character on
From(s, i) == SubSeq(s, i, Len(s))

\* String.prototype.trim
RECURSIVE trimStart(_)
trimStart(s) == IF s # "" /\ CharIn(CharAt(s, 1), JsWhitespace) THEN trimStart(From(s, 2)) ELSE s

RECURSIVE trimEnd(_)
trimEnd(s) ==
    IF s # "" /\ CharIn(CharAt(s, Len(s)), JsWhitespace) THEN trimEnd(SubSeq(s, 1, Len(s) - 1)) ELSE s

trim(s) == trimEnd(trimStart(s))

\* url.replace(/\/+$/, '')
RECURSIVE removeTrailingSlashes(_)
removeTrailingSlashes(s) ==
    IF s # "" /\ CharAt(s, Len(s)) = "/" THEN removeTrailingSlashes(SubSeq(s, 1, Len(s) - 1)) ELSE s

\* /^p/i for a lower-case literal p
MatchesPrefixIgnoreCase(s, p) == Len(p) <= Len(s) /\ lower(SubSeq(s, 1, Len(p))) = p

\* (\/.*)?$ : nothing, or a slash and anything but a line terminator
PathToEnd(s) ==
    \/ s = ""
    \/ /\ CharAt(s, 1) = "/"
       /\ \A i \in 1..Len(s) : ~CharIn(CharAt(s, i), LineTerminators)

\* [a-zA-Z]{2,}(\/.*)?$
TldToEnd(s) ==
    LET n == SpanLen(s, Letters)
    IN  n >= 2 /\ PathToEnd(From(s, n + 1))

\* [a-zA-Z0-9]([a-zA-Z0-9-]{0,61}[a-zA-Z0-9])?\. : the length of the label
\* and its dot at the start of s, 0 when there is none
LabelDotLen(s) ==
    LET n == SpanLen(s, AlnumHyphen)
    IN  IF /\ n >= 1
           /\ n <= 63
           /\ n < Len(s)
           /\ CharIn(CharAt(s, 1), Alnum)
           /\ CharIn(CharAt(s, n), Alnum)
           /\ CharAt(s, n + 1) = "."
        THEN n + 1 ELSE 0

\* (label\.)+ then the top-level domain and the optional path
RECURSIVE LabelsThenTld(_, _)
LabelsThenTld(s, labels) ==
    \/ labels >= 1 /\ TldToEnd(s)
    \/ LabelDotLen(s) > 0 /\ LabelsThenTld(From(s, LabelDotLen(s) + 1), labels + 1)

domainPattern(url) == LabelsThenTld(url, 0)

\* ^[a-zA-Z0-9][a-zA-Z0-9-]*[a-zA-Z0-9]*\.[a-zA-Z]{2,}(\/.*)?$
simpleDomainPattern(url) ==
    LET n == SpanLen(url, AlnumHyphen)
    IN  /\ n >= 1
        /\ n < Len(url)
        /\ CharIn(CharAt(url, 1), Alnum)
        /\ CharAt(url, n + 1) = "."
        /\ TldToEnd(From(url, n + 2))

\* (:\d+)?(\/.*)?$
PortToEnd(s) ==
    \/ PathToEnd(s)
    \/ /\ s # ""
       /\ CharAt(s, 1) = ":"
       /\ SpanLen(From(s, 2), Digits) >= 1
       /\ PathToEnd(From(s, 2 + SpanLen(From(s, 2), Digits)))

\* ^(localhost|127\.0\.0\.1|0\.0\.0\.0)(:\d+)?(\/.*)?$
localhostPattern(url) ==
    \E h \in {"localhost", "127.0.0.1", "0.0.0.0"} :
        startswith(url, h) /\ PortToEnd(From(url, Len(h) + 1))

\* \d{1,3} followed n - 1 times by \.\d{1,3}, then the port and the path
RECURSIVE OctetsToEnd(_, _)
OctetsToEnd(s, n) ==
    LET d == SpanLen(s, Digits)
    IN  /\ d >= 1
        /\ d <= 3
        /\ IF n = 1 THEN PortToEnd(From(s, d + 1))
           ELSE /\ d < Len(s)
                /\ CharAt(s, d + 1) = "."
                /\ OctetsToEnd(From(s, d + 2), n - 1)

\* ^\d{1,3}\.\d{1,3}\.\d{1,3}\.\d{1,3}(:\d+)?(\/.*)?$
ipPattern(url) == OctetsToEnd(url, 4)

\* (a normalizer that keeps the trailing slashes)
normalizeUrl_keeping_slashes(input) ==
    IF input = "" THEN input
    ELSE LET url == trim(input)
         IN  IF MatchesPrefixIgnoreCase(url, "http://") THEN "https://" \o From(url, 8)
             ELSE IF MatchesPrefixIgnoreCase(url, "https://") THEN url
             ELSE IF startswith(url, "//") THEN "https:" \o url
             ELSE IF domainPattern(url) \/ simpleDomainPattern(url)
                     \/ localhostPattern(url) \/ ipPattern(url)
                  THEN "https://" \o url
                  ELSE url

\* normalizeUrl(input), for a string input
normalizeUrl(input) ==
    IF input = "" THEN input
    ELSE LET url == removeTrailingSlashes(trim(input))
         IN  IF MatchesPrefixIgnoreCase(url, "http://") THEN "https://" \o From(url, 8)
             ELSE IF MatchesPrefixIgnoreCase(url, "https://") THEN url
             ELSE IF startswith(url, "//") THEN "https:" \o url
             ELSE IF domainPattern(url) \/ simpleDomainPattern(url)
                     \/ localhostPattern(url) \/ ipPattern(url)
                  THEN "https://" \o url
                  ELSE url

-----------------------------------------------------------------------------
(* Calls of normalizeUrl: on a text, and on what it returned *)

UrlLeads == {"", " "}
UrlSchemes == {"", "http://", "https://", "//", "HTTP://", "Https://", "ftp://"}
UrlHosts == {"example.com", "www.example.com", "sub.my-site.co.uk", "localhost", "127.0.0.1",
             "example.com:8080", "localhost:3000", "exa_mple.com", "example", "a-.com", ""}
UrlTails == {"", "/", "/path", "/path/", "//", "?q=1", "/a b", " /"}
UrlTrails == {"", " ", "\n"}

\* the texts a user can submit: optional blanks, scheme, host, rest, blanks
UrlPool ==
    {l \o s \o h \o t \o r : l \in UrlLeads, s \in UrlSchemes, h \in UrlHosts,
                               t \in UrlTails, r \in UrlTrails}

\* nothing but the normalizer is running
CoreIdle ==
    /\ AnalysisDone
    /\ vendors = <<>>
    /\ ScoreIdle
    /\ WeightedIdle

InitNormalize ==
    /\ CoreIdle
    /\ AppIdle
    /\ AdapterIdle
    /\ RequestIdle
    /\ LoadingIdle
    /\ nInput \in UrlPool
    /\ nOutput = ""
    /\ nAgain = ""
    /\ npc = "called"

\* const normalizedUrl = normalizeUrl(url)
NormalizeInput ==
    /\ npc = "called"
    /\ nOutput' = normalizeUrl(nInput)
    /\ npc' = "returned"
    /\ UNCHANGED <<analysisVars, vendors, scoreVars, weightedVars, appVars, adapterVars, requestVars, loadingVars, nInput, nAgain>>

\* normalizeUrl applied to an address it returned
NormalizeOutput ==
    /\ npc = "returned"
    /\ nAgain' = normalizeUrl(nOutput)
    /\ npc' = "renormalized"
    /\ UNCHANGED <<analysisVars, vendors, scoreVars, weightedVars, appVars, adapterVars, requestVars, loadingVars, nInput, nOutput>>

NextNormalize == NormalizeInput \/ NormalizeOutput

SpecNormalize == InitNormalize /\ [][NextNormalize]_vars

-----------------------------------------------------------------------------
(* Properties of normalizeUrl *)

\* the parts of s between its dots
RECURSIVE SplitDots(_)
SplitDots(s) ==
    LET n == CSpanLen(s, ".")
    IN  IF n = Len(s) THEN <<s>> ELSE <<SubSeq(s, 1, n)>> \o SplitDots(From(s, n + 2))

\* a host label: 1 to 63 letters, digits and hyphens, no hyphen at either end
IsHostLabel(l) ==
    /\ Len(l) \in 1..63
    /\ \A i \in 1..Len(l) : CharIn(CharAt(l, i), AlnumHyphen)
    /\ CharAt(l, 1) # "-"
    /\ CharAt(l, Len(l)) # "-"

\* a bare domain: dot-separated host labels ending in a top-level domain of
\* two or more letters, optionally followed by a /path on the same line
IsBareDomain(s) ==
    LET parts == SplitDots(SubSeq(s, 1, CSpanLen(s, "/")))
    IN  /\ Len(parts) >= 2
        /\ \A k \in 1..Len(parts) : IsHostLabel(parts[k])
        /\ \A i \in 1..Len(parts[Len(parts)]) : CharIn(CharAt(parts[Len(parts)], i), Letters)
        /\ Len(parts[Len(parts)]) >= 2
        /\ \A i \in 1..Len(s) : ~CharIn(CharAt(s, i), LineTerminators)

AddressOf(x) ==
    LET shown == {i \in 1..Len(x) : ~CharIn(CharAt(x, i), JsWhitespace)}
    IN  IF shown = {} THEN ""
        ELSE LET first == CHOOSE i \in shown : \A j \in shown : i <= j
                 last == CHOOSE i \in shown : \A j \in shown : j <= i
                 t == SubSeq(x, first, last)
                 kept == {i \in 1..Len(t) : CharAt(t, i) # "/"}
             IN  IF kept = {} THEN ""
                 ELSE SubSeq(t, 1, CHOOSE i \in kept : \A j \in kept : j <= i)

-----------------------------------------------------------------------------
(* frontend/src/App.jsx: the App component and handleAnalyze.  An action is *)
(* what runs between two awaits: a promise's continuation runs before any   *)
(* timer callback, so the arrival of the response and clearTimeout are one  *)
(* step, and so are a rejection, the catch block and the finally block.     *)

\* config.js: import.meta.env.VITE_API_URL || 'http://localhost:8000'
API_URL == "http://localhost:8000"

AbortMessage ==
    "Request timed out after 60 seconds. The page may be too large or the server is taking too long. Please try a different URL or check the backend logs."

UnreachableMessage ==
    IF API_URL # "" /\ ~IsSubstring("localhost", API_URL)
    THEN "Cannot reach the backend at " \o API_URL \o ". Check that the service is running on Render (dashboard -> Logs), that the deploy succeeded, and that FRONTEND_URLS includes this site. First request on free tier can take 30-60s (cold start)."
    ELSE "Cannot connect to backend API at " \o API_URL \o ". Make sure the backend server is running (e.g. uvicorn on port 8000)."

SlowMessage == "Request timed out. The page may be too large or the server is slow. Please try again."
NotFoundMessage == "Page not found (404). Please check the URL is correct."
ForbiddenMessage == "Access forbidden (403). The page may require authentication or block automated access."
TargetUnreachableMessage ==
    "Could not reach the target URL. Check your internet connection and verify the URL is correct."

\* an Error object
Err(name, message) == [name |-> name, message |-> message]

\* (a choice that looks at the status codes before the word timeout)
errorMessage_status_first(err) ==
    IF err.name = "AbortError" \/ IsSubstring("aborted", err.message) THEN AbortMessage
    ELSE IF IsSubstring("Failed to fetch", err.message) \/ IsSubstring("NetworkError", err.message)
         THEN UnreachableMessage
    ELSE IF IsSubstring("404", err.message) THEN NotFoundMessage
    ELSE IF IsSubstring("403", err.message) THEN ForbiddenMessage
    ELSE IF IsSubstring("timeout", err.message) THEN SlowMessage
    ELSE IF IsSubstring("Connection error", err.message) THEN TargetUnreachableMessage
    ELSE err.message

\* the catch block's choice of errorMessage
errorMessage(err) ==
    IF err.name = "AbortError" \/ IsSubstring("aborted", err.message) THEN AbortMessage
    ELSE IF IsSubstring("Failed to fetch", err.message) \/ IsSubstring("NetworkError", err.message)
         THEN UnreachableMessage
    ELSE IF IsSubstring("timeout", err.message) THEN SlowMessage
    ELSE IF IsSubstring("404", err.message) THEN NotFoundMessage
    ELSE IF IsSubstring("403", err.message) THEN ForbiddenMessage
    ELSE IF IsSubstring("Connection error", err.message) THEN TargetUnreachableMessage
    ELSE err.message

\* what fetch and the body's stream reject with when the network fails,
\* one message per browser engine
NetworkErrors ==
    { Err("TypeError", "Failed to fetch"),
      Err("TypeError", "NetworkError when attempting to fetch resource."),
      Err("TypeError", "Load failed") }

\* controller.abort() rejects the pending fetch
AbortError == Err("AbortError", "The user aborted a request.")

\* response.json() on a body that is not JSON
JsonSyntaxError == Err("SyntaxError", "Unexpected token < in JSON at position 0")

\* response.text() after response.json() has consumed the body
BodyUsedError == Err("TypeError", "Failed to execute 'text' on 'Response': body stream already read")

\* what the backend, or a proxy in front of it, answers
ResponsePool ==
    { Response(TRUE, 200, TRUE, "", "{\"score\": 85}", <<[score |-> 85, risk_level |-> "Medium"]>>),
      Response(TRUE, 200, FALSE, "", "<html>Bad Gateway</html>", <<>>),
      Response(FALSE, 400, TRUE, "Could not access page", "{\"detail\": \"Could not access page\"}", <<>>),
      Response(FALSE, 400, TRUE, "HTTP error 404", "{\"detail\": \"HTTP error 404\"}", <<>>),
      Response(FALSE, 400, TRUE, "Connection error: ('Connection aborted.', RemoteDisconnected('Remote end closed connection without response'))", "{\"detail\": \"...\"}", <<>>),
      Response(FALSE, 400, TRUE, "Request timeout while fetching https://example.com/errors/404", "{\"detail\": \"...\"}", <<>>),
      Response(FALSE, 500, TRUE, "", "{}", <<>>),
      Response(FALSE, 502, FALSE, "", "Bad Gateway", <<>>),
      Response(FALSE, 503, FALSE, "", "", <<>>) }

\* the texts the Hero form submits
SubmittedUrls == {"example.com", "https://stripe.com/privacy/"}

\* everything but the App component
outsideApp == <<analysisVars, vendors, scoreVars, weightedVars, normalizerVars, adapterVars, requestVars, loadingVars>>

InitApp ==
    /\ CoreIdle
    /\ NormalizerIdle
    /\ AdapterIdle
    /\ RequestIdle
    /\ LoadingIdle
    /\ AppIdle

\* (a catch block whose finally leaves the step where it was)
ThrownKeepingStep(err) ==
    /\ thrown' = <<err>>
    /\ error' = <<errorMessage(err)>>
    /\ loading' = FALSE
    /\ currentStep' = currentStep
    /\ hpc' = "idle"

\* catch (err) { ... setError(errorMessage) } finally { setLoading(false);
\* setCurrentStep(0) }
Thrown(err) ==
    /\ thrown' = <<err>>
    /\ error' = <<errorMessage(err)>>
    /\ loading' = FALSE
    /\ currentStep' = 0
    /\ hpc' = "idle"

\* (a submit that is possible beside a result and leaves it)
SubmitKeepingResult ==
    /\ ~loading
    /\ \E url \in SubmittedUrls : currentUrl' = <<normalizeUrl(url)>>
    /\ loading' = TRUE
    /\ error' = <<>>
    /\ currentStep' = 0
    /\ hpc' = "connecting"
    /\ response' = NoResponse
    /\ bodyState' = "none"
    /\ thrown' = <<>>
    /\ UNCHANGED <<outsideApp, timer, result>>

\* Hero is rendered and calls handleAnalyze(url): up to the first await
Submit ==
    /\ result = <<>>
    /\ ~loading
    /\ \E url \in SubmittedUrls : currentUrl' = <<normalizeUrl(url)>>
    /\ loading' = TRUE
    /\ error' = <<>>
    /\ result' = <<>>
    /\ currentStep' = 0
    /\ hpc' = "connecting"
    /\ response' = NoResponse
    /\ bodyState' = "none"
    /\ thrown' = <<>>
    /\ UNCHANGED <<outsideApp, timer>>

\* after 500 ms: the timer is armed and the request is sent
StartFetch ==
    /\ hpc = "connecting"
    /\ currentStep' = 1
    /\ timer' = "pending"
    /\ hpc' = "fetching"
    /\ UNCHANGED <<outsideApp, thrown, loading, error, result, currentUrl, response, bodyState>>

\* fetch resolves with a Response: clearTimeout(timeoutId), then either the
\* error branch's await response.json() or step 2 and its 500 ms wait
ResponseArrives ==
    /\ hpc = "fetching"
    /\ \E r \in ResponsePool :
          /\ response' = r
          /\ IF r.ok THEN currentStep' = 2 /\ hpc' = "analysing"
                     ELSE currentStep' = currentStep /\ hpc' = "errorJson"
    /\ timer' = "cleared"
    /\ bodyState' = "pending"
    /\ UNCHANGED <<outsideApp, thrown, loading, error, result, currentUrl>>

\* fetch rejects because the network failed: the catch and finally blocks
\* run, clearTimeout (after the await) does not
FetchRejects ==
    /\ hpc = "fetching"
    /\ \E err \in NetworkErrors : Thrown(err)
    /\ UNCHANGED <<outsideApp, result, currentUrl, timer, response, bodyState>>

\* the 60-second timer fires: controller.abort() rejects a pending fetch
TimerFires ==
    /\ timer = "pending"
    /\ timer' = "fired"
    /\ IF hpc = "fetching" THEN Thrown(AbortError)
       ELSE UNCHANGED <<loading, error, currentStep, hpc, thrown>>
    /\ UNCHANGED <<outsideApp, result, currentUrl, response, bodyState>>

\* the network delivers the whole body of the response
BodyArrives ==
    /\ bodyState = "pending"
    /\ bodyState' = "arrived"
    /\ UNCHANGED <<outsideApp, thrown, loading, error, result, currentUrl, currentStep, hpc, timer, response>>

\* the connection breaks before the body is complete
BodyFails ==
    /\ bodyState = "pending"
    /\ bodyState' = "failed"
    /\ UNCHANGED <<outsideApp, thrown, loading, error, result, currentUrl, currentStep, hpc, timer, response>>

\* if (!response.ok): await response.json() settles.  JSON gives
\* errorData.detail || 'Failed to analyze URL'; otherwise the inner catch
\* awaits response.text() on the body json() has consumed, which rejects
ErrorBodyRead ==
    /\ hpc = "errorJson"
    /\ bodyState \in {"arrived", "failed"}
    /\ IF bodyState = "arrived" /\ response.json
       THEN Thrown(Err("Error", IF response.detail # "" THEN response.detail
                                ELSE "Failed to analyze URL"))
       ELSE Thrown(BodyUsedError)
    /\ UNCHANGED <<outsideApp, result, currentUrl, timer, response, bodyState>>

\* after 500 ms: step 3 and its 1000 ms wait
StepWebSearch ==
    /\ hpc = "analysing"
    /\ currentStep' = 3
    /\ hpc' = "searching"
    /\ UNCHANGED <<outsideApp, thrown, loading, error, result, currentUrl, timer, response, bodyState>>

\* after 1000 ms: const data = await response.json()
StartParse ==
    /\ hpc = "searching"
    /\ hpc' = "parsing"
    /\ UNCHANGED <<outsideApp, thrown, loading, error, result, currentUrl, currentStep, timer, response, bodyState>>

\* await response.json() settles: step 4 and its 800 ms wait, or a throw
BodyParsed ==
    /\ hpc = "parsing"
    /\ bodyState \in {"arrived", "failed"}
    /\ IF bodyState = "arrived" /\ response.json
       THEN /\ currentStep' = 4
            /\ hpc' = "completing"
            /\ UNCHANGED <<loading, error, thrown>>
       ELSE IF bodyState = "arrived" THEN Thrown(JsonSyntaxError)
       ELSE \E err \in NetworkErrors : Thrown(err)
    /\ UNCHANGED <<outsideApp, result, currentUrl, timer, response, bodyState>>

\* after 800 ms: setResult(data), then the finally block
Complete ==
    /\ hpc = "completing"
    /\ result' = response.data
    /\ loading' = FALSE
    /\ currentStep' = 0
    /\ hpc' = "idle"
    /\ UNCHANGED <<outsideApp, thrown, error, currentUrl, timer, response, bodyState>>

\* Dashboard is rendered and calls handleReset
Reset ==
    /\ result # <<>>
    /\ result' = <<>>
    /\ error' = <<>>
    /\ currentUrl' = <<>>
    /\ currentStep' = 0
    /\ UNCHANGED <<outsideApp, thrown, loading, hpc, timer, response, bodyState>>

NextApp ==
    \/ Submit \/ StartFetch \/ ResponseArrives \/ FetchRejects \/ TimerFires
    \/ BodyArrives \/ BodyFails \/ ErrorBodyRead \/ StepWebSearch \/ StartParse
    \/ BodyParsed \/ Complete \/ Reset

SpecApp == InitApp /\ [][NextApp]_vars

\* the event loop runs every due timer callback and every continuation of a
\* settled promise; the network and the user owe nothing
SpecAppFair ==
    /\ SpecApp
    /\ WF_vars(StartFetch)
    /\ WF_vars(TimerFires)
    /\ WF_vars(ErrorBodyRead)
    /\ WF_vars(StepWebSearch)
    /\ WF_vars(StartParse)
    /\ WF_vars(BodyParsed)
    /\ WF_vars(Complete)

\* C19: a started analysis never hangs: whenever handleAnalyze has set
\* loading, it eventually finishes and sets loading to false, the 60-second
\* timer aborting a request that has not completed.
C19_EventuallyNotLoading == loading ~> ~loading

-----------------------------------------------------------------------------
(* Extraction Oracle Adapter (backend/main.py; modelled from section 4.3   *)
(* of the specification and the CHANGELOG's "Gemini API Errors")           *)

MaxRawVendors == 2

ListFields == {"vendors", "storage_locations"}
ScalarFields == {"summary", "registration_country", "data_residency"}
VendorFields == {"name", "purpose", "location", "risk"}

\* the member f of the parsed object is there and has the right type
Usable(raw, f) == f \in raw.present /\ f \notin raw.malformed

\* a missing scalar member of a vendor becomes the sentinel
NormalizeVendor(rv) ==
    [name     |-> IF "name" \in rv.present THEN rv.name ELSE "Unknown",
     purpose  |-> IF "purpose" \in rv.present THEN rv.purpose ELSE "Unknown",
     location |-> IF "location" \in rv.present THEN rv.location ELSE "Unknown",
     risk     |-> IF "risk" \in rv.present THEN rv.risk ELSE "Unknown"]

\* (a normalization that hands the oracle's members on as they are)
normalize_extraction_as_is(raw) ==
    [vendors |-> [i \in 1..Len(raw.vendors) |-> NormalizeVendor(raw.vendors[i])],
     storage_locations |-> raw.storage_locations,
     summary |-> raw.summary,
     registration_country |-> raw.registration_country,
     data_residency |-> raw.data_residency]

\* the normalization pass: an answer that is not structured data gives the
\* empty result; a missing or ill-typed list becomes the empty sequence, a
\* missing or ill-typed scalar the sentinel
normalize_extraction(raw) ==
    IF raw.kind # "json" THEN EmptyExtraction
    ELSE [vendors |-> IF Usable(raw, "vendors")
                      THEN [i \in 1..Len(raw.vendors) |-> NormalizeVendor(raw.vendors[i])]
                      ELSE <<>>,
          storage_locations |-> IF Usable(raw, "storage_locations")
                                THEN raw.storage_locations ELSE <<>>,
          summary |-> IF Usable(raw, "summary") THEN raw.summary ELSE "Unknown",
          registration_country |-> IF Usable(raw, "registration_country")
                                   THEN raw.registration_country ELSE "Unknown",
          data_residency |-> IF Usable(raw, "data_residency")
                             THEN raw.data_residency ELSE "Unknown"]

\* the diagnostic recorded for an answer that is not structured data
diagnostic_of(raw) ==
    IF raw.kind # "json" THEN <<"oracle response is not structured data: " \o raw.kind>> ELSE <<>>

RawVendorPool ==
    { RawVendor(VendorFields, "Stripe", "Payment Processing", "United States", "Critical"),
      RawVendor({"name", "location"}, "Acme Analytics", "", "Germany", ""),
      RawVendor({"purpose"}, "", "Hosting", "", "") }

\* the parsed objects: any set of members, at most one of them ill-typed
JsonResponses ==
    { RawResponse("json", p, m, vs, <<"US">>, "A payments company.", "US", "EU") :
        p \in SUBSET (ListFields \cup ScalarFields),
        m \in {{}} \cup {{f} : f \in ListFields \cup ScalarFields},
        vs \in SeqsUpTo(RawVendorPool, MaxRawVendors) }

\* an answer with no text, with text that holds no structured data, and
\* with structured data cut short
UnparseableResponses ==
    { RawResponse(k, {}, {}, <<>>, <<>>, "", "", "") : k \in {"none", "garbage", "truncated"} }

RawResponsePool == { r \in JsonResponses : r.malformed \subseteq r.present } \cup UnparseableResponses

\* everything but the adapter
outsideAdapter == <<analysisVars, vendors, scoreVars, weightedVars, normalizerVars, appVars, requestVars, loadingVars>>

InitAdapter ==
    /\ CoreIdle
    /\ NormalizerIdle
    /\ AppIdle
    /\ RequestIdle
    /\ LoadingIdle
    /\ rawResponse = NoRawResponse
    /\ extraction = EmptyExtraction
    /\ diagnostics = <<>>
    /\ opc = "calling"

\* the oracle answers
OracleAnswers ==
    /\ opc = "calling"
    /\ rawResponse' \in RawResponsePool
    /\ opc' = "answered"
    /\ UNCHANGED <<outsideAdapter, extraction, diagnostics>>

\* the call fails or exceeds its time limit
OracleFails ==
    /\ opc = "calling"
    /\ opc' = "failed"
    /\ UNCHANGED <<outsideAdapter, rawResponse, extraction, diagnostics>>

\* the adapter returns: the normalized answer, or the empty result after a
\* failure
AdapterReturns ==
    /\ opc \in {"answered", "failed"}
    /\ extraction' = IF opc = "failed" THEN EmptyExtraction ELSE normalize_extraction(rawResponse)
    /\ diagnostics' = IF opc = "failed" THEN <<"oracle call failed">> ELSE diagnostic_of(rawResponse)
    /\ opc' = IF opc = "failed" THEN "recovered" ELSE "normalized"
    /\ UNCHANGED <<outsideAdapter, rawResponse>>

NextAdapter == OracleAnswers \/ OracleFails \/ AdapterReturns

SpecAdapter == InitAdapter /\ [][NextAdapter]_vars

-----------------------------------------------------------------------------
(* Properties of the Extraction Oracle Adapter *)

-----------------------------------------------------------------------------
(* One request analyze(url) (backend/main.py; modelled from sections 2, 5  *)
(* and 7 of the specification and the CHANGELOG's "Scraping Errors"): the  *)
(* page is fetched and its text checked, then the Resource Extractor and   *)
(* the Fingerprint Matcher run beside the oracle call, and the Merge       *)
(* Engine and the Scoring Engine run on what both returned.                *)

\* Insufficient text: validates minimum 50 characters extracted
MinTextLength == 50

\* the pages fetched for one site
MaxPages == 2

\* Timeout errors, Connection errors, HTTP errors with status code
FetchFailures == {"timeout", "connection-error", "http-404", "http-500"}

TextLengths == {0, MinTextLength - 1, MinTextLength, 4000}

AnalysisPages ==
    { <<>>,
      <<Tag("script", "/static/app.js")>>,
      <<Tag("script", "https://js.stripe.com/v3/"), Tag("link", "https://fonts.googleapis.com/css2?family=Inter")>>,
      <<Tag("script", "https://js.stripe.com/v3/"), Tag("img", "https://q.stripe.com/pixel.gif")>>,
      <<Tag("img", "//widget.intercom.io/logo.png")>> }

\* the oracle's answers of the whole-request specification
AnalysisResponses ==
    { RawResponse("garbage", {}, {}, <<>>, <<>>, "", "", ""),
      RawResponse("json", ListFields \cup ScalarFields, {},
                  <<RawVendor(VendorFields, "Stripe", "Payment Processing", "United States", "Critical")>>,
                  <<"US">>, "A payments company.", "US", "EU"),
      RawResponse("json", {"summary"}, {},
                  <<RawVendor(VendorFields, "Stripe", "Payment Processing", "United States", "Critical")>>,
                  <<"US">>, "A payments company.", "US", "EU") }

\* the storage locations that are in the US
USLocations(locations) == Cardinality({i \in 1..Len(locations) : IsUSBased(locations[i])})

\* the facts the Scoring Engine reads, from the adapter's fact bags
FactsOf(e) ==
    [registration |-> IF e.registration_country \in {"US", "EU"} THEN e.registration_country
                      ELSE "Unknown",
     cloud |-> "none", storage_us |-> USLocations(e.storage_locations), processing_us |-> 0,
     us_offices |-> FALSE, eu_only_residency |-> e.data_residency = "EU",
     vendor_rule |-> "weighted"]

\* the terminal aggregate
AnalysisResult ==
    [score |-> score, riskLevel |-> risk_level, vendors |-> vendors,
     detectedServices |-> detectedServices, summary |-> extraction.summary,
     riskFactors |-> deductions, positiveFactors |-> positive_factors]

Failure(reason, detail) == Outcome("failure", reason, detail, <<>>)

analysisRest == <<page, baseUrl, oracleVendors, resources, uniqueDomains, detectedServices, nextService>>
adapterRest == <<rawResponse, extraction, diagnostics>>
scoreRest == <<facts, score, deductions, positive_factors, risk_level, nextVendor>>
bystanders == <<weightedVars, normalizerVars, appVars, loadingVars>>

InitAnalyze ==
    /\ page = <<>>
    /\ baseUrl \in BaseUrlPool
    /\ oracleVendors = <<>>
    /\ resources = NoResources
    /\ uniqueDomains = <<>>
    /\ detectedServices = <<>>
    /\ vendors = <<>>
    /\ nextService = 0
    /\ mpc = "waiting"
    /\ ScoreIdle
    /\ WeightedIdle
    /\ NormalizerIdle
    /\ AppIdle
    /\ AdapterIdle
    /\ LoadingIdle
    /\ fetchStatus = "pending"
    /\ textLength = 0
    /\ inFlight = MaxPages
    /\ aborted = FALSE
    /\ outcome = NoOutcome
    /\ apc = "fetching"

\* (a fetch whose completion lets the request go on while others are in flight)
PageFetchedEager ==
    /\ apc = "fetching"
    /\ inFlight > 0
    /\ \E p \in AnalysisPages : page' = page \o p
    /\ \E n \in TextLengths : textLength' = textLength + n
    /\ inFlight' = inFlight - 1
    /\ fetchStatus' = "ok"
    /\ apc' = "fetched"
    /\ UNCHANGED <<baseUrl, oracleVendors, resources, uniqueDomains, detectedServices, nextService,
                   mpc, vendors, scoreVars, adapterVars, bystanders, aborted, outcome>>

\* one of the page fetches returns markup; the request goes on when the
\* last one has
PageFetched ==
    /\ apc = "fetching"
    /\ inFlight > 0
    /\ \E p \in AnalysisPages : page' = page \o p
    /\ \E n \in TextLengths : textLength' = textLength + n
    /\ inFlight' = inFlight - 1
    /\ fetchStatus' = IF inFlight = 1 THEN "ok" ELSE fetchStatus
    /\ apc' = IF inFlight = 1 THEN "fetched" ELSE apc
    /\ UNCHANGED <<baseUrl, oracleVendors, resources, uniqueDomains, detectedServices, nextService,
                   mpc, vendors, scoreVars, adapterVars, bystanders, aborted, outcome>>

\* a page fetch fails: FetchFailure is terminal, the other fetches are
\* cancelled
FetchFails ==
    /\ apc = "fetching"
    /\ inFlight > 0
    /\ fetchStatus' \in FetchFailures
    /\ inFlight' = 0
    /\ outcome' = Failure("FetchFailure", fetchStatus')
    /\ apc' = "failed"
    /\ UNCHANGED <<analysisVars, vendors, scoreVars, adapterVars, bystanders, textLength, aborted>>

\* (a check that lets any amount of text through)
CheckContentLenient ==
    /\ apc = "fetched"
    /\ apc' = "running"
    /\ mpc' = "scraped"
    /\ opc' = "calling"
    /\ UNCHANGED <<analysisRest, vendors, scoreVars, adapterRest, bystanders,
                   fetchStatus, textLength, inFlight, aborted, outcome>>

\* too little text is InsufficientContent; otherwise the extraction and the
\* oracle call start
CheckContent ==
    /\ apc = "fetched"
    /\ IF textLength < MinTextLength
       THEN /\ outcome' = Failure("InsufficientContent", "fewer than 50 characters of text")
            /\ apc' = "failed"
            /\ UNCHANGED <<mpc, opc>>
       ELSE /\ apc' = "running"
            /\ mpc' = "scraped"
            /\ opc' = "calling"
            /\ UNCHANGED outcome
    /\ UNCHANGED <<analysisRest, vendors, scoreVars, adapterRest, bystanders,
                   fetchStatus, textLength, inFlight, aborted>>

\* the oracle answers the request's call
OracleAnswersAnalysis ==
    /\ OracleAnswers
    /\ rawResponse' \in AnalysisResponses

\* Merge Engine, step 1, on the vendors the adapter returned
SeedFromExtraction ==
    /\ apc = "running"
    /\ mpc = "matched"
    /\ opc \in {"normalized", "recovered"}
    /\ oracleVendors' = extraction.vendors
    /\ vendors' = SeedCanonicalSet(extraction.vendors)
    /\ nextService' = 1
    /\ mpc' = "merging"
    /\ UNCHANGED <<page, baseUrl, resources, uniqueDomains, detectedServices,
                   scoreVars, adapterVars, bystanders, requestVars>>

\* the Scoring Engine starts from the merged vendors and the adapter's facts
StartScoring ==
    /\ apc = "running"
    /\ mpc = "merged"
    /\ spc = "idle"
    /\ facts' = FactsOf(extraction)
    /\ score' = StartingScore
    /\ spc' = "registration"
    /\ UNCHANGED <<analysisVars, vendors, deductions, positive_factors, risk_level, nextVendor,
                   adapterVars, bystanders, requestVars>>

\* the complete AnalysisResult is returned
ReturnResult ==
    /\ apc = "running"
    /\ spc = "scored"
    /\ outcome' = Outcome("result", "", "", <<AnalysisResult>>)
    /\ apc' = "returned"
    /\ UNCHANGED <<analysisVars, vendors, scoreVars, adapterVars, bystanders,
                   fetchStatus, textLength, inFlight, aborted>>

\* the caller aborts: the stages are cancelled and what they had is discarded
Abort ==
    /\ apc \in {"fetching", "fetched", "running"}
    /\ aborted' = TRUE
    /\ outcome' = Failure("Aborted", "the caller aborted the request")
    /\ apc' = "failed"
    /\ mpc' = "cancelled"
    /\ opc' = "cancelled"
    /\ spc' = "cancelled"
    /\ inFlight' = 0
    /\ UNCHANGED <<analysisRest, vendors, scoreRest, adapterRest, bystanders, fetchStatus, textLength>>

NextAnalyze ==
    \/ PageFetched
    \/ FetchFails
    \/ CheckContent
    \/ AnalyzeResources
    \/ MatchServices
    \/ OracleAnswersAnalysis
    \/ OracleFails
    \/ AdapterReturns
    \/ SeedFromExtraction
    \/ MergeNextService
    \/ FinishMerge
    \/ StartScoring
    \/ ScoreRegistration
    \/ ScoreInfrastructure
    \/ ScoreDataFlows
    \/ ScoreOffices
    \/ ScoreVendor
    \/ FinishScore
    \/ ReturnResult
    \/ Abort

SpecAnalyze == InitAnalyze /\ [][NextAnalyze]_vars

-----------------------------------------------------------------------------
(* Properties of the whole request *)

\* the registry entries whose fragment occurs in one of the hostnames
FingerprintEntries(domains) ==
    {KNOWN_SERVICES[k] : k \in UNION {Fragments(domains[i]) : i \in 1..Len(domains)}}

RECURSIVE SumPenalties(_, _)
SumPenalties(rule, vs) ==
    IF vs = <<>> THEN 0 ELSE VendorPenalty(rule, Head(vs)) + SumPenalties(rule, Tail(vs))

\* C11: when the oracle call fails or times out the request still returns
\* an AnalysisResult and no failure: its vendors are exactly the
\* fingerprint-derived vendors, one per name that a registry fragment of a
\* referenced hostname gives, each with the registry's purpose, location
\* and risk and the detection method "resource-fingerprint"; nothing is
\* deducted or added for company, storage or residency facts, and the
\* score and the risk level are those of the vendors' penalties alone.
C11_FingerprintOnly ==
    (apc = "returned" /\ opc = "recovered") =>
        /\ outcome.kind = "result"
        /\ outcome.reason = ""
        /\ Len(outcome.result) = 1
        /\ LET r == outcome.result[1]
               expected == FingerprintEntries(uniqueDomains)
           IN  /\ {r.vendors[k].name : k \in 1..Len(r.vendors)} = {e.name : e \in expected}
               /\ \A j, k \in 1..Len(r.vendors) : j # k => r.vendors[j].name # r.vendors[k].name
               /\ \A k \in 1..Len(r.vendors) :
                     \E e \in expected : r.vendors[k] = FromRegistry(DetectedService(e))
               /\ r.positiveFactors = <<>>
               /\ Len(r.riskFactors) = Cardinality({k \in 1..Len(r.vendors) : VendorPenalty("weighted", r.vendors[k]) > 0})
               /\ r.score = clamp(StartingScore - SumPenalties("weighted", r.vendors))
               /\ r.riskLevel = RiskLevel(r.score)

\* the request has ended
Ended == apc \in {"returned", "failed"}

\* some stage of the request can take its step (the two steps that only
\* assign are enabled where their conditions hold)
CanStep ==
    \/ mpc = "scraped"
    \/ mpc = "merging" /\ nextService <= Len(detectedServices)
    \/ ENABLED (PageFetched \/ FetchFails \/ CheckContent \/ MatchServices \/ OracleAnswersAnalysis
                   \/ OracleFails \/ AdapterReturns \/ SeedFromExtraction \/ FinishMerge
                   \/ StartScoring \/ ScoreRegistration \/ ScoreInfrastructure \/ ScoreDataFlows
                   \/ ScoreOffices \/ ScoreVendor \/ FinishScore \/ ReturnResult \/ Abort)

C13_Outcome ==
    /\ apc = "returned" <=> outcome.kind = "result"
    /\ apc = "failed" <=> outcome.kind = "failure"
    /\ outcome.kind \in {"none", "result", "failure"}
    /\ outcome.kind = "result" =>
          /\ Len(outcome.result) = 1
          /\ outcome.reason = ""
          /\ outcome.result[1].score \in 0..100
          /\ outcome.result[1].riskLevel \in {"High", "Medium", "Low"}
          /\ outcome.result[1].vendors = vendors
          /\ mpc = "merged"
          /\ spc = "scored"
          /\ fetchStatus = "ok"
          /\ textLength >= MinTextLength
          /\ ~aborted
    /\ outcome.kind = "failure" =>
          /\ outcome.result = <<>>
          /\ outcome.reason \in {"FetchFailure", "InsufficientContent", "Aborted"}
          /\ outcome.reason = "FetchFailure" <=> fetchStatus \in FetchFailures
          /\ outcome.reason = "Aborted" <=> aborted
          /\ outcome.reason = "InsufficientContent" => (fetchStatus = "ok" /\ textLength < MinTextLength)
    /\ fetchStatus \in FetchFailures => outcome.kind = "failure"
    /\ aborted => outcome.kind = "failure"
    /\ ~Ended => CanStep

C13_Step ==
    /\ outcome.kind # "none" => outcome' = outcome
    /\ aborted => UNCHANGED <<vendors, detectedServices, score>>
    /\ (apc = "fetched" /\ textLength < MinTextLength) => outcome'.kind = "failure"

\* C13: a request ends in exactly one of two ways, a complete
\* AnalysisResult or a typed failure that carries no AnalysisResult, and
\* what it returned never changes; a failed page fetch, a page with fewer
\* than 50 characters of text and a caller's abort never give a result;
\* after an abort nothing is merged or scored; a request that has not
\* ended can always take a step.
C13_OneOutcome == [][C13_Outcome /\ C13_Outcome' /\ C13_Step]_vars

\* an abort during the merge: the vendors merged so far are not returned
C13_Witness ==
    /\ aborted
    /\ apc = "failed"
    /\ Len(vendors) >= 1
    /\ nextService >= 1
    /\ outcome.kind = "failure"
    /\ outcome.result = <<>>

\* the stages of one analysis, in the order they are passed
StageRank(pc) ==
    CASE pc = "waiting"  -> 0
      [] pc = "scraped"  -> 1
      [] pc = "analyzed" -> 2
      [] pc = "matched"  -> 3
      [] pc = "merging"  -> 4
      [] pc = "merged"   -> 5
      [] OTHER           -> 6

C21_Stage ==
    /\ StageRank(mpc) >= 1 /\ mpc # "cancelled" => inFlight = 0 /\ fetchStatus = "ok"
    /\ StageRank(mpc) < 3 => detectedServices = <<>>
    /\ StageRank(mpc) < 4 => vendors = <<>>
    /\ apc = "returned" => mpc = "merged"

C21_Step ==
    /\ StageRank(mpc') >= StageRank(mpc)
    /\ detectedServices' # detectedServices => mpc = "analyzed" /\ mpc' = "matched" /\ inFlight = 0
    /\ (mpc # "matched" /\ mpc' = "matched") => mpc = "analyzed" /\ inFlight = 0
    /\ (mpc # "merging" /\ mpc' = "merging") => mpc = "matched" /\ inFlight = 0
    /\ vendors' # vendors => mpc' = "merging" /\ inFlight = 0

C22_OnePerHostAndKind ==
    mpc # "scraped" =>
        \A k \in ResourceKinds :
            \A i, j \in 1..Len(resources[k]) :
                i # j => resources[k][i].domain # resources[k][j].domain

-----------------------------------------------------------------------------
(* components/Hero.jsx: the form's own normalizeUrl and handleSubmit, and   *)
(* the safety normalization of App's handleAnalyze on what Hero passed      *)

\* after a label and its dot: (\.label)* \.[a-zA-Z]{2,} , nothing anchored
\* at the end
RECURSIVE HeroLabelsThenTld(_)
HeroLabelsThenTld(s) ==
    \/ SpanLen(s, Letters) >= 2
    \/ LabelDotLen(s) > 0 /\ HeroLabelsThenTld(From(s, LabelDotLen(s) + 1))

\* /^[a-zA-Z0-9]([a-zA-Z0-9-]{0,61}[a-zA-Z0-9])?(\.[a-zA-Z0-9](...)?)*\.[a-zA-Z]{2,}/
HeroDomainPattern(url) ==
    LabelDotLen(url) > 0 /\ HeroLabelsThenTld(From(url, LabelDotLen(url) + 1))

\* /^[a-zA-Z0-9]([a-zA-Z0-9-]{0,61}[a-zA-Z0-9])?$/
HeroLabelPattern(url) ==
    /\ url # ""
    /\ Len(url) <= 63
    /\ SpanLen(url, AlnumHyphen) = Len(url)
    /\ CharIn(CharAt(url, 1), Alnum)
    /\ CharIn(CharAt(url, Len(url)), Alnum)

\* Hero's normalizeUrl(input)
Hero_normalizeUrl(input) ==
    IF input = "" \/ trim(input) = "" THEN input
    ELSE LET url == trim(input)
         IN  IF MatchesPrefixIgnoreCase(url, "http://") \/ MatchesPrefixIgnoreCase(url, "https://")
             THEN url
             ELSE IF startswith(url, "//") THEN "https:" \o url
             ELSE IF HeroDomainPattern(url) THEN "https://" \o url
             ELSE IF HeroLabelPattern(url) THEN "https://" \o url
             ELSE IF startswith(url, "/") THEN url
             ELSE "https://" \o url

\* the text in the form's field is nInput
InitHero ==
    /\ CoreIdle
    /\ AppIdle
    /\ AdapterIdle
    /\ RequestIdle
    /\ LoadingIdle
    /\ nInput \in UrlPool
    /\ nOutput = ""
    /\ nAgain = ""
    /\ npc = "typed"

\* handleSubmit: if (url.trim()) onAnalyze(normalizeUrl(url.trim()))
HeroSubmit ==
    /\ npc = "typed"
    /\ trim(nInput) # ""
    /\ nOutput' = Hero_normalizeUrl(trim(nInput))
    /\ npc' = "submitted"
    /\ UNCHANGED <<analysisVars, vendors, scoreVars, weightedVars, appVars, adapterVars, requestVars, loadingVars, nInput, nAgain>>

\* handleAnalyze(url): const normalizedUrl = normalizeUrl(url), the URL of
\* the request's body
AppNormalizes ==
    /\ npc = "submitted"
    /\ nAgain' = normalizeUrl(nOutput)
    /\ npc' = "sent"
    /\ UNCHANGED <<analysisVars, vendors, scoreVars, weightedVars, appVars, adapterVars, requestVars, loadingVars, nInput, nOutput>>

NextHero == HeroSubmit \/ AppNormalizes

SpecHero == InitHero /\ [][NextHero]_vars

\* C23: the URL that Hero passes to onAnalyze is already normalized: App's
\* normalizeUrl returns it unchanged, so the URL sent to the backend is the
\* URL Hero produced.
C23_HeroUrlIsSent == npc = "sent" => nAgain = nOutput

-----------------------------------------------------------------------------
(* Properties of normalizeUrl applied twice *)

\* C29: normalizeUrl is idempotent: applied to an address it returned, it
\* returns that address.
C29_Idempotent == npc = "renormalized" => nAgain = nOutput

-----------------------------------------------------------------------------
(* Properties of handleAnalyze's outcomes *)

\* a run of handleAnalyze has finished and the view has not been reset
Finished == hpc = "idle" /\ currentUrl # <<>>

\* the message of the first rule that applies to err, the first rule being
\* the test isAbort
FirstRule(err, isAbort) ==
    LET rules == << <<isAbort, AbortMessage>>,
                    <<IsSubstring("Failed to fetch", err.message) \/ IsSubstring("NetworkError", err.message),
                      UnreachableMessage>>,
                    <<IsSubstring("timeout", err.message), SlowMessage>>,
                    <<IsSubstring("404", err.message), NotFoundMessage>>,
                    <<IsSubstring("403", err.message), ForbiddenMessage>>,
                    <<IsSubstring("Connection error", err.message), TargetUnreachableMessage>>,
                    <<TRUE, err.message>> >>
        first == CHOOSE i \in 1..Len(rules) : rules[i][1] /\ \A j \in 1..(i - 1) : ~rules[j][1]
    IN  rules[first][2]

C25_HttpStatusMessage ==
    (Finished /\ response.status # 0 /\ ~response.ok /\ ~response.json /\ bodyState = "arrived") =>
        /\ thrown # <<>>
        /\ thrown[1].message = "HTTP " \o IntToStr(response.status) \o ": "
                                  \o (IF response.text # "" THEN response.text ELSE "Unknown error")

\* C26: when a run of handleAnalyze has finished, loading is false and
\* currentStep is 0, and exactly one of result and error is set: result,
\* the parsed body, exactly when the response was OK and its body arrived
\* and was JSON; error otherwise.
C26_ResultOrError ==
    Finished =>
        /\ ~loading
        /\ currentStep = 0
        /\ (result # <<>>) # (error # <<>>)
        /\ result # <<>> <=> (response.ok /\ response.json /\ bodyState = "arrived")
        /\ result # <<>> => result = response.data
        /\ error # <<>> <=> thrown # <<>>

\* the run that the 60-second timer aborted
C26_Witness ==
    /\ Finished
    /\ timer = "fired"
    /\ thrown = <<AbortError>>
    /\ error = <<AbortMessage>>
    /\ currentStep = 0

\* the three views of App's render
HeroView == result = <<>> /\ ~loading
LoadingView == loading
DashboardView == result # <<>>

C28_TimerNotPending == hpc = "idle" => timer # "pending"

-----------------------------------------------------------------------------
(* components/Loading.jsx: the effects on currentStep and the interval's   *)
(* callback.  An interval keeps the currentStep and the thinkingIndex of   *)
(* the effect run that created it.                                         *)

\* const steps = [...]: the thinking list of each step
steps ==
    << [id |-> 0, title |-> "Scraping multiple pages",
        thinking |-> << "Connecting to homepage...", "Scraping /about page...",
                        "Scraping /privacy policy...", "Scraping /legal/subprocessors...",
                        "Scraping /security page...", "Scraping /careers page...",
                        "Combining all page content..." >>],
       [id |-> 1, title |-> "Extracting information",
        thinking |-> << "Parsing HTML from all pages...", "Removing scripts and styles...",
                        "Extracting visible text...", "Cleaning and formatting content...",
                        "Preparing for AI analysis..." >>],
       [id |-> 2, title |-> "AI Analysis",
        thinking |-> << "Analyzing company registration...", "Identifying cloud infrastructure...",
                        "Extracting data storage locations...", "Finding office/employee locations...",
                        "Identifying sub-processors...", "Assessing vendor risks...",
                        "Analyzing data flows...", "Generating comprehensive summary..." >>],
       [id |-> 3, title |-> "Web Search Discovery",
        thinking |-> << "Searching for company registration details...",
                        "Finding infrastructure announcements...",
                        "Discovering compliance certifications...",
                        "Locating recent security incidents...", "Finding office expansions...",
                        "Discovering additional risk factors...", "Merging search findings..." >>],
       [id |-> 4, title |-> "Calculating sovereignty score",
        thinking |-> << "Evaluating company jurisdiction...", "Assessing infrastructure risks...",
                        "Analyzing data storage locations...", "Checking employee locations...",
                        "Evaluating compliance status...", "Scoring sub-processors...",
                        "Calculating final score...", "Determining risk level..." >>] >>

\* steps[currentStep].thinking
ThinkingOf(s) == steps[s + 1].thinking

\* newSteps[s], the empty list when it is undefined
Recorded(list, s) == IF list[s] = <<>> THEN <<>> ELSE list[s][1]

\* an interval as its callback sees it
Interval(step, thinkingIndex) == [step |-> step, thinkingIndex |-> thinkingIndex]

\* (a cleanup that leaves the interval running)
NoCleanup(live) == live

\* return () => clearInterval(interval)
Cleanup(live) == {}

\* the two effects for the value s of currentStep: the first empties
\* everything at step 0, the second empties the step's list and starts
\* its interval
RunEffects(s, live) ==
    /\ thinkingSteps' = [(IF s = 0 THEN NoThinkingSteps ELSE thinkingSteps) EXCEPT ![s] = << <<>> >>]
    /\ currentThinking' = ""
    /\ intervals' = live \cup {Interval(s, 0)}

outsideLoading == <<analysisVars, vendors, scoreVars, weightedVars, normalizerVars, appVars,
                    adapterVars, requestVars>>

InitLoading ==
    /\ CoreIdle
    /\ NormalizerIdle
    /\ AppIdle
    /\ AdapterIdle
    /\ RequestIdle
    /\ LoadingIdle

\* App renders Loading: the state is initial and the effects run
Mount ==
    /\ ~mounted
    /\ mounted' = TRUE
    /\ \E s \in 0..(Len(steps) - 1) :
          /\ lCurrentStep' = s
          /\ RunEffects(s, {})
    /\ UNCHANGED outsideLoading

\* the prop currentStep changes: the cleanup of the last effect run, then
\* the effects for the new value
StepChanges ==
    /\ mounted
    /\ \E s \in {0, lCurrentStep + 1} :
          /\ s # lCurrentStep
          /\ s < Len(steps)
          /\ lCurrentStep' = s
          /\ RunEffects(s, Cleanup(intervals))
    /\ UNCHANGED <<outsideLoading, mounted>>

\* one second has passed: the callback of a live interval
Tick ==
    /\ mounted
    /\ \E iv \in intervals :
          LET thinking == ThinkingOf(iv.step)
              recorded == Recorded(thinkingSteps, iv.step)
          IN  IF iv.thinkingIndex < Len(thinking)
              THEN LET thought == thinking[iv.thinkingIndex + 1]
                   IN  /\ currentThinking' = thought
                       /\ thinkingSteps' =
                             [thinkingSteps EXCEPT ![iv.step] =
                                 << IF \E i \in 1..Len(recorded) : recorded[i] = thought
                                    THEN recorded ELSE Append(recorded, thought) >>]
                       /\ intervals' = (intervals \ {iv})
                                          \cup {Interval(iv.step, iv.thinkingIndex + 1)}
              ELSE /\ currentThinking' = ""
                   /\ intervals' = intervals \ {iv}
                   /\ UNCHANGED thinkingSteps
    /\ UNCHANGED <<outsideLoading, mounted, lCurrentStep>>

\* App stops rendering Loading: the cleanup runs and the state is dropped
Unmount ==
    /\ mounted
    /\ mounted' = FALSE
    /\ lCurrentStep' = 0
    /\ thinkingSteps' = NoThinkingSteps
    /\ currentThinking' = ""
    /\ intervals' = Cleanup(intervals)
    /\ UNCHANGED outsideLoading

NextLoading == Mount \/ StepChanges \/ Tick \/ Unmount

SpecLoading == InitLoading /\ [][NextLoading]_vars

\* the first n thoughts of a step
Shown(s, n) == SubSeq(ThinkingOf(s), 1, n)

C30_Lists ==
    /\ \A s \in 0..(Len(steps) - 1) :
          LET recorded == Recorded(thinkingSteps, s)
          IN  /\ Len(recorded) <= Len(ThinkingOf(s))
              /\ recorded = Shown(s, Len(recorded))
              /\ \A i, j \in 1..Len(recorded) : i # j => recorded[i] # recorded[j]
    /\ Cardinality(intervals) <= 1
    /\ \A iv \in intervals :
          /\ mounted
          /\ iv.step = lCurrentStep
          /\ Recorded(thinkingSteps, lCurrentStep) = Shown(lCurrentStep, iv.thinkingIndex)
          /\ currentThinking = IF iv.thinkingIndex = 0 THEN ""
                               ELSE ThinkingOf(lCurrentStep)[iv.thinkingIndex]
    /\ (mounted /\ intervals = {}) =>
          /\ Recorded(thinkingSteps, lCurrentStep) = ThinkingOf(lCurrentStep)
          /\ currentThinking = ""

C30_Tick ==
    /\ \A s \in 0..(Len(steps) - 1) :
          Len(Recorded(thinkingSteps', s)) > Len(Recorded(thinkingSteps, s)) =>
              /\ s = lCurrentStep
              /\ lCurrentStep' = lCurrentStep
              /\ Len(Recorded(thinkingSteps', s)) = Len(Recorded(thinkingSteps, s)) + 1
    /\ (mounted /\ mounted' /\ lCurrentStep' # lCurrentStep) =>
          intervals' = {Interval(lCurrentStep', 0)}
    /\ (mounted /\ mounted' /\ UNCHANGED lCurrentStep
           /\ Recorded(thinkingSteps, lCurrentStep) = ThinkingOf(lCurrentStep)) =>
          /\ intervals' = {}
          /\ currentThinking' = ""
          /\ UNCHANGED thinkingSteps

\* C30: the thoughts recorded for a step are always a duplicate-free
\* prefix, in order, of the step's thinking list; a list grows only for
\* the active step, by one thought per tick; at most one interval is live,
\* it is the active step's, and a change of currentStep replaces it by a
\* new one that starts at the first thought; the tick that finds all
\* thoughts shown clears the interval and empties currentThinking, and the
\* interval is cleared in no other way while the step stays.
C30_ThinkingPrefix == [][C30_Lists /\ C30_Lists' /\ C30_Tick]_vars

\* step 2 has shown all its thoughts and its interval is cleared, while
\* the three thoughts step 1 had shown before the change are kept
C30_Witness ==
    /\ mounted
    /\ lCurrentStep = 2
    /\ Recorded(thinkingSteps, 1) = Shown(1, 3)
    /\ Recorded(thinkingSteps, 2) = ThinkingOf(2)
    /\ intervals = {}
    /\ currentThinking = ""

====
